---- MODULE Spec2Model ----
(***************************************************************************)
(* Model of the validator profitability tools (ts/src/monthly-profitability*)
(* /index.ts): RewardsService.fetchRewards as a state machine with one     *)
(* action per segment between two awaits, and the epoch resolution of      *)
(* MonthlyProfitabilityBot.run as operators applied by a small driver.     *)
(*                                                                         *)
(* Arithmetic.  The JavaScript totals are doubles.  The model keeps them   *)
(* exact: totalVoteRewards is held in hundredths (the sum of               *)
(* total_inflation_reward * commission, the code divides by 100) and       *)
(* totalJitoRewards in ten-thousandths (the sum of mev_earned *            *)
(* mev_commission, the code divides by 10_000).  Rounding of the double    *)
(* sums is not modelled.                                                   *)
(***************************************************************************)
EXTENDS Integers, Sequences, FiniteSets, TLC

\* ------------------------------------------------------------------ bounds

\* Epochs 0..MaxEpoch exist at the providers in the generic configurations.
MaxEpoch == 3

\* The gap-fill loop is followed up to this many epochs past MaxEpoch (it has
\* no upper limit of its own when the bulk response is an empty list).
GapOverrun == 2

EpochCap == MaxEpoch + GapOverrun

\* Start dates and reference timestamps are the seconds 0..MaxSeconds.
MaxSeconds == 4

\* The reference slot is one of 0..MaxSlot.
MaxSlot == 3

\* An epoch schedule has at most this many epoch boundaries.
MaxBoundaries == 2

\* At most this many start dates are resolved against one reference point.
MaxResolved == 2

\* Each revenue total of a report is a multiple, up to this, of its unit.
MaxReward == 1

\* The total vote cost of a report is at most this, in SOL.
MaxCost == 2

\* The price of one SOL is 1..MaxPrice dollars.
MaxPrice == 2

\* The monthly expenses are 0..MaxExpenses dollars.
MaxExpenses == 1

\* A cycle lasts 1..MaxCycle units of time, and the report is made from one
\* unit before its start to MaxElapsed units after it.
MaxCycle == 2

MaxElapsed == 2

\* Messages handed to the Logger on its own.
MaxMessages == 2

\* A list of version requirements has at most this many entries.
MaxRequirements == 2

\* The samples a slot latency measurement takes (the benchmark takes 60).
SAMPLE_COUNT == 3

\* The clock of the benchmark runs up to this many milliseconds.
MaxClock == 2

\* An Agave version has this many components.
ComponentCounts == 1..3

\* Math.min() of no arguments: larger than every epoch.
Infinity == 1000000

\* ------------------------------------------------------- provider contents

VoteAccount == "voteAccount"

OtherAccount == "otherValidator"

\* The validator's record for epoch e, as both Trillium endpoints hold it.
ValidatorRecord(e) ==
    [ epoch                  |-> e,
      vote_account_pubkey    |-> VoteAccount,
      total_inflation_reward |-> 10 + e,
      commission             |-> 5 + (e \div 2),
      mev_earned             |-> 20 + e,
      mev_commission         |-> 800 + 100 * (e \div 2),
      rewards                |-> e % 3,
      vote_cost              |-> 1 + (e % 2) ]

\* Another validator's record in the per-epoch result set of epoch e.
OtherRecord(e) ==
    [ epoch                  |-> e,
      vote_account_pubkey    |-> OtherAccount,
      total_inflation_reward |-> 1000,
      commission             |-> 100,
      mev_earned             |-> 1000,
      mev_commission         |-> 10000,
      rewards                |-> 1000,
      vote_cost              |-> 1000 ]

SetMin(S) == CHOOSE m \in S : \A x \in S : m <= x

SetMax(S) == CHOOSE m \in S : \A x \in S : m >= x

RECURSIVE Ascending(_)
Ascending(S) ==
    IF S = {} THEN <<>>
    ELSE LET m == SetMin(S) IN <<ValidatorRecord(m)>> \o Ascending(S \ {m})

RECURSIVE Descending(_)
Descending(S) ==
    IF S = {} THEN <<>>
    ELSE LET m == SetMax(S) IN <<ValidatorRecord(m)>> \o Descending(S \ {m})

\* What GET /validator_rewards/<voteAccount> can answer: a failure, or the
\* validator's history, one record per epoch, in either order.
BulkResponses(E) ==
    {[ok |-> FALSE, data |-> <<>>]}
    \cup {[ok |-> TRUE, data |-> Ascending(S)] : S \in SUBSET E}
    \cup {[ok |-> TRUE, data |-> Descending(S)] : S \in SUBSET E}

VARIABLES
    bulk,               \* the bulk endpoint's answer for this validator
    epochsWithEntry,    \* epochs whose per-epoch result set holds the validator
    plan,               \* the calls of fetchRewards still to be made
    history,            \* the outcomes of the completed calls
    pc,                 \* where fetchRewards stands
    startEpoch,
    endEpoch,
    totals,
    earliestEpochInAPI,
    epoch,              \* the loop variable of the per-epoch loops
    requests,           \* per-epoch requests issued by this call, in order
    failed,             \* per-epoch requests of this call that were rejected
    added,              \* records added to the totals by this call, in order
    warnings            \* warnings this call has logged or handed to its caller

fetchVars == <<bulk, epochsWithEntry, plan, history, pc, startEpoch, endEpoch,
               totals, earliestEpochInAPI, epoch, requests, failed, added,
               warnings>>

VARIABLES
    recentSlot,         \* connection.getSlot()
    blockTime,          \* connection.getBlockTime(recentSlot); 0 stands for null
    nowSeconds,         \* Math.floor(Date.now() / 1000)
    epochSchedule,      \* connection.getEpochSchedule()
    resolved            \* the start dates resolved so far, with their results

resolveVars == <<recentSlot, blockTime, nowSeconds, epochSchedule, resolved>>

VARIABLES
    rewards,                \* the ValidatorRewards handed to the report
    solanaPrice,            \* the price the oracle answers
    monthlyExpenses,
    voteCostReimbursement,
    startDate,              \* getTime() of the three dates of the cycle
    currentDate,
    endDate,
    report,                 \* what ProfitabilityReportService.generateReport made
    botReport               \* what the single-class MonthlyProfitabilityBot.run made

reportVars == <<rewards, solanaPrice, monthlyExpenses, voteCostReimbursement,
                startDate, currentDate, endDate, report, botReport>>

VARIABLES
    today,                  \* new Date(): local year, month (0..11) and day
    monthlyBillingDay,
    cycle                   \* the billing cycle run() has built

cycleVars == <<today, monthlyBillingDay, cycle>>

VARIABLES
    loggerOptions,          \* what the Logger was constructed with
    telegram,               \* whether the Logger holds a TelegramBotMessenger
    logPc,                  \* where the Logger call in progress stands
    pending,                \* the formatted message of the call in progress
    console,                \* the lines written to the console, in order
    telegramSent,           \* the messages Telegram has accepted, in order
    deliveryFailures        \* how many Telegram requests were rejected

logVars == <<loggerOptions, telegram, logPc, pending, console, telegramSent,
             deliveryFailures>>

VARIABLES
    config,                 \* what MonthlyProfitabilityBot was constructed with
    chainEpoch,             \* the epoch connection.getEpochInfo() answers
    runPc,                  \* where run() stands
    runNumber,              \* how many times run() has been called
    currentEpoch,           \* the local currentEpoch of the run in progress
    runLog,                 \* how the completed runs ended, in order
    exitCode,               \* the code process.exit() was called with, if any
    calls                   \* the requests and calls the run in progress has made

runVars == <<config, chainEpoch, runPc, runNumber, currentEpoch, runLog,
             exitCode, calls>>

VARIABLES
    network,                \* the network checkNetwork was called for
    checkPc,                \* where checkNetwork stands
    requiredVersions,       \* what fetchRequiredVersions answered
    currentVersion,         \* the validator's version; no characters if none
    networkEpoch,           \* currentEpoch.epoch of checkNetwork
    verdict,                \* what checkNetwork has computed, if it has
    onlyLogIssues,
    providedVersion,        \* mainnetVersion and testnetVersion, if given
    components,             \* the numbers the versions compared were written from
    compared                \* what compareVersions returned, if called

sfdpVars == <<network, checkPc, requiredVersions, currentVersion, networkEpoch,
              verdict, onlyLogIssues, providedVersion, components, compared>>

VARIABLES
    mainPc,                 \* where main() of the benchmark stands
    clock,                  \* Date.now(), in milliseconds
    listening,              \* per measurement: its listener is subscribed
    lastTimestamp,
    count,
    slotTimes,
    removals,               \* per measurement: removals of its listener asked for
    resolvedAvg,            \* per measurement: what its promise resolved to
    printed,                \* the averages printed, in order
    differential            \* the differential main() printed, if it has

latencyVars == <<mainPc, clock, listening, lastTimestamp, count, slotTimes,
                 removals, resolvedAvg, printed, differential>>

botVars == <<logVars, runVars, sfdpVars, latencyVars>>

vars == <<fetchVars, resolveVars, reportVars, cycleVars, botVars>>

\* GET /validator_rewards/<epoch>: every validator's record of that epoch.
EpochResponse(e) ==
    <<OtherRecord(e)>>
    \o (IF e \in epochsWithEntry THEN <<ValidatorRecord(e)>> ELSE <<>>)

\* ----------------------------------------------------------- fetchRewards

ZeroTotals ==
    [ totalVoteRewards       |-> 0,
      totalJitoRewards       |-> 0,
      totalBlockRewards      |-> 0,
      totalBlocksWithRewards |-> 0,
      totalVoteCost          |-> 0 ]

\* The body of the bulk loop for one record inside the range.
AddBulkRecord(t, d) ==
    [ totalVoteRewards       |-> t.totalVoteRewards
                                   + d.total_inflation_reward * d.commission,
      totalJitoRewards       |-> t.totalJitoRewards
                                   + d.mev_earned * d.mev_commission,
      totalBlockRewards      |-> t.totalBlockRewards + d.rewards,
      totalBlocksWithRewards |-> t.totalBlocksWithRewards
                                   + (IF d.rewards > 0 THEN 1 ELSE 0),
      totalVoteCost          |-> t.totalVoteCost + d.vote_cost ]

\* Mutant of AddEpochRecord: the whole inflation reward is added, without the
\* commission.
AddEpochRecordWholeReward(t, v) ==
    [ totalVoteRewards       |-> t.totalVoteRewards
                                   + v.total_inflation_reward * 100,
      totalJitoRewards       |-> t.totalJitoRewards
                                   + v.mev_earned * v.mev_commission,
      totalBlockRewards      |-> t.totalBlockRewards + v.rewards,
      totalBlocksWithRewards |-> t.totalBlocksWithRewards,
      totalVoteCost          |-> t.totalVoteCost + v.vote_cost ]

\* The body of "if (validatorData)" in the gap-fill and fallback loops.
AddEpochRecord(t, v) ==
    [ totalVoteRewards       |-> t.totalVoteRewards
                                   + v.total_inflation_reward * v.commission,
      totalJitoRewards       |-> t.totalJitoRewards
                                   + v.mev_earned * v.mev_commission,
      totalBlockRewards      |-> t.totalBlockRewards + v.rewards,
      totalBlocksWithRewards |-> t.totalBlocksWithRewards,
      totalVoteCost          |-> t.totalVoteCost + v.vote_cost ]

\* Mutant of TotalsAtEntry: a call starts from the totals the call before it
\* left.
TotalsCarriedOver(previous) == previous

\* let totalVoteRewards = 0 ... let totalVoteCost = 0: the totals are locals of
\* the call, initialised whatever an earlier call computed.
TotalsAtEntry(previous) == ZeroTotals

InRange(e, s, n) == e >= s /\ e < n

\* for (const epochData of trilliumValidatorData) if (in range) totals += ...
RECURSIVE ProcessBulk(_, _, _, _)
ProcessBulk(data, s, n, t) ==
    IF data = <<>> THEN t
    ELSE ProcessBulk(Tail(data), s, n,
                     IF InRange(Head(data).epoch, s, n)
                     THEN AddBulkRecord(t, Head(data)) ELSE t)

\* The records the bulk loop adds, as (epoch, path) pairs in loop order.
RECURSIVE BulkAdded(_, _, _)
BulkAdded(data, s, n) ==
    IF data = <<>> THEN <<>>
    ELSE (IF InRange(Head(data).epoch, s, n)
          THEN <<[epoch |-> Head(data).epoch, path |-> "bulk",
                  pubkey |-> Head(data).vote_account_pubkey]>>
          ELSE <<>>)
         \o BulkAdded(Tail(data), s, n)

\* Mutant of EarliestEpoch: the first record's epoch instead of the minimum.
EarliestEpochOfFirstRecord(data) ==
    IF data = <<>> THEN Infinity ELSE data[1].epoch

\* Math.min(...trilliumValidatorData.map((d) => d.epoch))
EarliestEpoch(data) ==
    IF data = <<>> THEN Infinity
    ELSE SetMin({data[i].epoch : i \in 1..Len(data)})

\* Mutant of Find: the first element of the result set, whoever it belongs to.
FindFirstElement(list) ==
    IF list = <<>> THEN <<>> ELSE <<Head(list)>>

\* trilliumData.find((v) => v.vote_account_pubkey === this.voteAccountAddress):
\* the first matching element, or <<>> for undefined.
RECURSIVE Find(_)
Find(list) ==
    IF list = <<>> THEN <<>>
    ELSE IF Head(list).vote_account_pubkey = VoteAccount THEN <<Head(list)>>
    ELSE Find(Tail(list))

\* One pass of a per-epoch loop body on the response for epoch e.
TotalsAfterEpoch(t, e) ==
    LET validatorData == Find(EpochResponse(e))
    IN  IF validatorData # <<>> THEN AddEpochRecord(t, validatorData[1]) ELSE t

AddedAfterEpoch(a, e, path) ==
    LET validatorData == Find(EpochResponse(e))
    IN  IF validatorData # <<>>
        THEN Append(a, [epoch |-> e, path |-> path,
                        pubkey |-> validatorData[1].vote_account_pubkey])
        ELSE a

\* The first epoch of the gap-fill loop and its exclusive limit.
GapFillFirst(s) == s

GapFillLimit(earliest, n) == earliest

\* Mutant of FallbackFirst: the fallback loop skips the first epoch.
FallbackFirstSkipsOne(s) == s + 1

\* The first epoch of the fallback loop and its exclusive limit.
FallbackFirst(s) == s

FallbackLimit(s, n) == n

Running == pc \in {"awaitBulk", "awaitGap", "awaitFallback"}

\* The outcome of the call that has just completed.
Outcome ==
    [ startEpoch |-> startEpoch, endEpoch |-> endEpoch, result |-> pc,
      totals |-> totals, failures |-> Len(failed), failed |-> failed ]

\* fetchRewards(startEpoch, endEpoch) is called: the totals start at zero and
\* the bulk request is issued.
EnterFetchRewards(s, n) ==
    /\ ~Running
    /\ history' = (IF pc = "idle" THEN history ELSE Append(history, Outcome))
    /\ startEpoch' = s
    /\ endEpoch' = n
    /\ totals' = TotalsAtEntry(totals)
    /\ earliestEpochInAPI' = Infinity
    /\ epoch' = s
    /\ requests' = <<>>
    /\ failed' = <<>>
    /\ added' = <<>>
    /\ warnings' = <<>>
    /\ pc' = "awaitBulk"
    /\ UNCHANGED <<bulk, epochsWithEntry, resolveVars, reportVars, cycleVars>>

\* The next call of the plan is made.
CallFetch ==
    /\ plan # <<>>
    /\ EnterFetchRewards(Head(plan)[1], Head(plan)[2])
    /\ plan' = Tail(plan)
    /\ UNCHANGED botVars

\* The entry of the catch block: the fallback loop starts, on the totals
\* accumulated so far.
EnterFallback ==
    IF FallbackFirst(startEpoch) < FallbackLimit(startEpoch, endEpoch)
    THEN /\ pc' = "awaitFallback"
         /\ epoch' = FallbackFirst(startEpoch)
         /\ requests' = Append(requests, [epoch |-> FallbackFirst(startEpoch),
                                          path |-> "fallback"])
    ELSE /\ pc' = "returned"
         /\ UNCHANGED <<epoch, requests>>

\* The bulk request resolves: the records are filtered and added, the earliest
\* epoch is taken, and the gap-fill loop issues its first request or is skipped.
BulkResolve ==
    /\ pc = "awaitBulk"
    /\ bulk.ok
    /\ totals' = ProcessBulk(bulk.data, startEpoch, endEpoch, totals)
    /\ added' = added \o BulkAdded(bulk.data, startEpoch, endEpoch)
    /\ earliestEpochInAPI' = EarliestEpoch(bulk.data)
    /\ IF startEpoch < EarliestEpoch(bulk.data)
          /\ GapFillFirst(startEpoch)
               < GapFillLimit(EarliestEpoch(bulk.data), endEpoch)
       THEN /\ pc' = "awaitGap"
            /\ epoch' = GapFillFirst(startEpoch)
            /\ requests' = Append(requests, [epoch |-> GapFillFirst(startEpoch),
                                             path |-> "gap"])
       ELSE /\ pc' = "returned"
            /\ UNCHANGED <<epoch, requests>>
    /\ UNCHANGED <<bulk, epochsWithEntry, plan, history, startEpoch, endEpoch,
                   warnings, resolveVars, reportVars, cycleVars, botVars,
                   failed>>

\* The bulk request is rejected (network error, timeout, unparsable body): the
\* catch block runs.
BulkReject ==
    /\ pc = "awaitBulk"
    /\ ~bulk.ok
    /\ EnterFallback
    /\ UNCHANGED <<bulk, epochsWithEntry, plan, history, startEpoch, endEpoch,
                   warnings, resolveVars, reportVars, cycleVars, botVars,
                   totals, earliestEpochInAPI, failed, added>>

\* A gap-fill request resolves: the validator's entry, if any, is added, and
\* the loop goes on to the next epoch or ends.
GapResolve ==
    /\ pc = "awaitGap"
    /\ earliestEpochInAPI = Infinity => epoch < EpochCap
    /\ totals' = TotalsAfterEpoch(totals, epoch)
    /\ added' = AddedAfterEpoch(added, epoch, "gap")
    /\ IF epoch + 1 < GapFillLimit(earliestEpochInAPI, endEpoch)
       THEN /\ epoch' = epoch + 1
            /\ requests' = Append(requests, [epoch |-> epoch + 1, path |-> "gap"])
            /\ pc' = "awaitGap"
       ELSE /\ pc' = "returned"
            /\ UNCHANGED <<epoch, requests>>
    /\ UNCHANGED <<bulk, epochsWithEntry, plan, history, startEpoch, endEpoch,
                   warnings, resolveVars, reportVars, cycleVars, botVars,
                   earliestEpochInAPI, failed>>

\* A gap-fill request is rejected, or its body is not a JSON array: the
\* exception leaves the try block and the catch block runs.
GapReject ==
    /\ pc = "awaitGap"
    /\ failed' = Append(failed, [epoch |-> epoch, path |-> "gap"])
    /\ EnterFallback
    /\ UNCHANGED <<bulk, epochsWithEntry, plan, history, startEpoch, endEpoch,
                   warnings, resolveVars, reportVars, cycleVars, botVars,
                   totals, earliestEpochInAPI, added>>

\* A fallback request resolves.
FallbackResolve ==
    /\ pc = "awaitFallback"
    /\ totals' = TotalsAfterEpoch(totals, epoch)
    /\ added' = AddedAfterEpoch(added, epoch, "fallback")
    /\ IF epoch + 1 < FallbackLimit(startEpoch, endEpoch)
       THEN /\ epoch' = epoch + 1
            /\ requests' = Append(requests, [epoch |-> epoch + 1,
                                             path |-> "fallback"])
            /\ pc' = "awaitFallback"
       ELSE /\ pc' = "returned"
            /\ UNCHANGED <<epoch, requests>>
    /\ UNCHANGED <<bulk, epochsWithEntry, plan, history, startEpoch, endEpoch,
                   warnings, resolveVars, reportVars, cycleVars, botVars,
                   earliestEpochInAPI, failed>>

\* A fallback request is rejected: nothing catches it, fetchRewards rejects.
FallbackReject ==
    /\ pc = "awaitFallback"
    /\ failed' = Append(failed, [epoch |-> epoch, path |-> "fallback"])
    /\ pc' = "thrown"
    /\ UNCHANGED <<bulk, epochsWithEntry, plan, history, startEpoch, endEpoch,
                   warnings, resolveVars, reportVars, cycleVars, botVars,
                   totals, earliestEpochInAPI, epoch, requests, added>>

\* ------------------------------------------------ epoch resolution (run)
\* Times are whole seconds: startDate is a local midnight, so
\* startDate.getTime() / 1000 is an integer, and secondsDifference / 0.4 is
\* 2.5 * secondsDifference, which a double holds exactly.

\* (await connection.getBlockTime(recentSlot)) || Math.floor(Date.now() / 1000)
RecentTimestamp(bt, nowSec) == IF bt = 0 THEN nowSec ELSE bt

\* recentSlot + Math.floor(secondsDifference / 0.4)
EstimatedSlot(slot, secondsDifference) == slot + ((5 * secondsDifference) \div 2)

\* Mutant of ClampSlot: the estimate is used as it is.
ClampSlotMissing(slot) == slot

\* Mutant of ClampSlot: a negative estimate is mirrored instead of clamped.
ClampSlotMirrors(slot) == IF slot < 0 THEN 0 - slot ELSE slot

\* if (startSlot < 0) startSlot = 0
ClampSlot(slot) == IF slot < 0 THEN 0 ELSE slot

\* epochSchedule.getEpochAndSlotIndex(slot)[0] of @solana/web3.js, an external
\* collaborator: the schedule is any non-decreasing map from slots to epochs,
\* given by the slots at which a new epoch begins.  A slot before genesis,
\* which the library is never meant to be asked for, gives a negative epoch.
GetEpoch(schedule, slot) ==
    IF slot < 0 THEN -1
    ELSE Cardinality({b \in schedule.boundaries : b <= slot})

\* Math.max(0, e)
FloorAtZero(e) == IF e < 0 THEN 0 ELSE e

\* The slot handed to the epoch schedule for the start date startSec.
StartSlot(startSec) ==
    ClampSlot(EstimatedSlot(recentSlot,
                            startSec - RecentTimestamp(blockTime, nowSeconds)))

\* run() resolves the billing start date startSec to startEpoch.
ResolveStartEpoch(startSec) ==
    /\ resolved' = Append(resolved,
                          [ startDate  |-> startSec,
                            startSlot  |-> StartSlot(startSec),
                            startEpoch |-> FloorAtZero(
                                GetEpoch(epochSchedule, StartSlot(startSec))) ])
    /\ UNCHANGED <<recentSlot, blockTime, nowSeconds, epochSchedule, fetchVars,
                   reportVars, cycleVars, botVars>>

\* ------------------------------------------------- JavaScript numbers
\* A number is [k, n, d]: a finite fraction n/d in lowest terms with d > 0; a
\* zero, n = 0, whose d is its sign (1 or -1); an infinity, whose n is its
\* sign; or NaN.  Finite results are exact: the rounding of doubles is not
\* modelled.

Abs(x) == IF x < 0 THEN 0 - x ELSE x

RECURSIVE Gcd(_, _)
Gcd(a, b) == IF b = 0 THEN a ELSE Gcd(b, a % b)

NaN == [k |-> "nan", n |-> 0, d |-> 1]

Inf(s) == [k |-> "inf", n |-> s, d |-> 1]

Zero(s) == [k |-> "fin", n |-> 0, d |-> s]

\* The fraction n/d, d # 0.
Rat(n, d) ==
    IF n = 0 THEN Zero(1)
    ELSE LET g == Gcd(Abs(n), Abs(d))
             s == IF d < 0 THEN -1 ELSE 1
         IN  [k |-> "fin", n |-> (s * n) \div g, d |-> (s * d) \div g]

Number(i) == Rat(i, 1)

IsFinite(a) == a.k = "fin"

IsZero(a) == a.k = "fin" /\ a.n = 0

Denom(a) == IF a.n = 0 THEN 1 ELSE a.d

SignOf(a) ==
    IF a.k = "inf" THEN a.n
    ELSE IF a.n > 0 THEN 1 ELSE IF a.n < 0 THEN -1 ELSE a.d

Neg(a) ==
    IF a.k = "nan" THEN NaN
    ELSE IF a.k = "inf" THEN Inf(0 - a.n)
    ELSE IF a.n = 0 THEN Zero(0 - a.d)
    ELSE [a EXCEPT !.n = 0 - a.n]

\* a * b
Mul(a, b) ==
    IF a.k = "nan" \/ b.k = "nan" THEN NaN
    ELSE IF a.k = "inf" \/ b.k = "inf"
         THEN (IF IsZero(a) \/ IsZero(b) THEN NaN
               ELSE Inf(SignOf(a) * SignOf(b)))
    ELSE IF a.n = 0 \/ b.n = 0 THEN Zero(SignOf(a) * SignOf(b))
    ELSE Rat(a.n * b.n, a.d * b.d)

\* a / b: a division by zero gives an infinity, 0 / 0 gives NaN.
Div(a, b) ==
    IF a.k = "nan" \/ b.k = "nan" THEN NaN
    ELSE IF a.k = "inf"
         THEN (IF b.k = "inf" THEN NaN ELSE Inf(SignOf(a) * SignOf(b)))
    ELSE IF b.k = "inf" THEN Zero(SignOf(a) * SignOf(b))
    ELSE IF b.n = 0
         THEN (IF a.n = 0 THEN NaN ELSE Inf(SignOf(a) * SignOf(b)))
    ELSE IF a.n = 0 THEN Zero(SignOf(a) * SignOf(b))
    ELSE Rat(a.n * b.d, a.d * b.n)

\* a + b
Add(a, b) ==
    IF a.k = "nan" \/ b.k = "nan" THEN NaN
    ELSE IF a.k = "inf"
         THEN (IF b.k = "inf" /\ b.n # a.n THEN NaN ELSE a)
    ELSE IF b.k = "inf" THEN b
    ELSE IF a.n = 0 /\ b.n = 0
         THEN Zero(IF a.d = -1 /\ b.d = -1 THEN -1 ELSE 1)
    ELSE IF a.n = 0 THEN b
    ELSE IF b.n = 0 THEN a
    ELSE Rat(a.n * b.d + b.n * a.d, a.d * b.d)

\* a - b
Sub(a, b) == Add(a, Neg(b))

\* a >= b: false when either side is NaN.
Geq(a, b) ==
    IF a.k = "nan" \/ b.k = "nan" THEN FALSE
    ELSE IF a.k = "inf" THEN (a.n = 1 \/ (b.k = "inf" /\ b.n = -1))
    ELSE IF b.k = "inf" THEN b.n = -1
    ELSE a.n * Denom(b) >= b.n * Denom(a)

\* a > b
Gt(a, b) == a.k # "nan" /\ b.k # "nan" /\ ~Geq(b, a)

\* x.toFixed(digits), as the number it prints: the nearest multiple of
\* 10^-digits, a tie going away from zero; "NaN" and "Infinity" for the rest.
ToFixed(x, digits) ==
    IF x.k # "fin" THEN x
    ELSE LET scale == 10 ^ digits
             q == (2 * Abs(x.n) * scale + Denom(x)) \div (2 * Denom(x))
         IN  IF q = 0 THEN Zero(IF x.n < 0 THEN -1 ELSE 1)
             ELSE Rat(SignOf(x) * q, scale)

\* ------------------------------------------------------- generateReport

\* The totals as the numbers fetchRewards returns: the model keeps the vote
\* rewards in hundredths and the MEV rewards in ten-thousandths.
RewardsAsNumbers(r) ==
    [ totalVoteRewards  |-> Rat(r.totalVoteRewards, 100),
      totalJitoRewards  |-> Rat(r.totalJitoRewards, 10000),
      totalBlockRewards |-> Number(r.totalBlockRewards),
      totalVoteCost     |-> Number(r.totalVoteCost) ]

\* Mutant of ReimbursedVoteCost: the reimbursed share is charged, not the rest.
ReimbursedVoteCostShare(totalVoteCost, pct) ==
    Mul(totalVoteCost, Div(Number(pct), Number(100)))

\* rewards.totalVoteCost * (1 - this.voteCostReimbursement / 100)
ReimbursedVoteCost(totalVoteCost, pct) ==
    Mul(totalVoteCost, Sub(Number(1), Div(Number(pct), Number(100))))

\* Mutant of ElapsedPct: the percentage is clamped to 100.
ElapsedPctClamped(elapsedMs, totalCycleMs) ==
    IF elapsedMs > totalCycleMs THEN Number(100)
    ELSE Mul(Div(Number(elapsedMs), Number(totalCycleMs)), Number(100))

\* (elapsedMs / totalCycleMs) * 100
ElapsedPct(elapsedMs, totalCycleMs) ==
    Mul(Div(Number(elapsedMs), Number(totalCycleMs)), Number(100))

\* (amount / elapsedMs) * totalCycleMs
Projected(amount, elapsedMs, totalCycleMs) ==
    Mul(Div(amount, Number(elapsedMs)), Number(totalCycleMs))

\* Mutant of AccruedExpenses: the whole month's expenses are accrued.
AccruedExpensesWholeMonth(monthly, elapsedMs, totalCycleMs) == monthly

\* (monthly * elapsedMs) / totalCycleMs
AccruedExpenses(monthly, elapsedMs, totalCycleMs) ==
    Div(Mul(monthly, Number(elapsedMs)), Number(totalCycleMs))

\* Mutant of PercentOf: the ratio is not scaled to a percentage.
PercentOfUnscaled(a, b) == Div(a, b)

\* (a / b) * 100
PercentOf(a, b) == Mul(Div(a, b), Number(100))

\* Mutant of TrackingStatus: the label is decided by the coverage percentage.
TrackingStatusByPercent(projected, expenses) ==
    IF Geq(PercentOf(projected, expenses), Number(100))
    THEN "On track" ELSE "Behind pace"

\* projected >= expenses ? "On track to ..." : "Behind pace"
TrackingStatus(projected, expenses) ==
    IF Geq(projected, expenses) THEN "On track" ELSE "Behind pace"

\* projected > expenses ? "make profit" : "break even"
OnTrackOutcome(projected, expenses) ==
    IF Gt(projected, expenses) THEN "make profit" ELSE "break even"

\* The figures of ProfitabilityReportService.generateReport and what its
\* lines print of them.
GenerateReportFigures ==
    LET r == RewardsAsNumbers(rewards)
        price == Number(solanaPrice)
        expenses == Number(monthlyExpenses)
        reimbursedVoteCost ==
            ReimbursedVoteCost(r.totalVoteCost, voteCostReimbursement)
        totalRevenueSOL ==
            Add(Add(r.totalVoteRewards, r.totalJitoRewards), r.totalBlockRewards)
        netGainSOL == Sub(totalRevenueSOL, reimbursedVoteCost)
        elapsedMs == currentDate - startDate
        totalCycleMs == endDate - startDate
        elapsedPct == ElapsedPct(elapsedMs, totalCycleMs)
        projectedMonthlySOL == Projected(netGainSOL, elapsedMs, totalCycleMs)
        projectedMonthlyUSD == Mul(projectedMonthlySOL, price)
        projectedProfitUSD == Sub(projectedMonthlyUSD, expenses)
        percentCovered == PercentOf(projectedMonthlyUSD, expenses)
        currentNetGainUSD == Mul(netGainSOL, price)
        accruedExpensesUSD == AccruedExpenses(expenses, elapsedMs, totalCycleMs)
        currentProfitUSD == Sub(currentNetGainUSD, accruedExpensesUSD)
        currentPercentCovered == PercentOf(currentNetGainUSD, accruedExpensesUSD)
    IN  [ reimbursedVoteCost    |-> reimbursedVoteCost,
          totalRevenueSOL       |-> totalRevenueSOL,
          netGainSOL            |-> netGainSOL,
          elapsedMs             |-> elapsedMs,
          totalCycleMs          |-> totalCycleMs,
          elapsedPct            |-> elapsedPct,
          projectedMonthlySOL   |-> projectedMonthlySOL,
          projectedMonthlyUSD   |-> projectedMonthlyUSD,
          projectedProfitUSD    |-> projectedProfitUSD,
          percentCovered        |-> percentCovered,
          currentNetGainUSD     |-> currentNetGainUSD,
          accruedExpensesUSD    |-> accruedExpensesUSD,
          currentProfitUSD      |-> currentProfitUSD,
          currentPercentCovered |-> currentPercentCovered,
          onTrackOutcome        |-> OnTrackOutcome(projectedMonthlyUSD, expenses),
          trackingStatus        |-> TrackingStatus(projectedMonthlyUSD, expenses),
          status                |-> IF Geq(currentPercentCovered, Number(100))
                                    THEN "covered" ELSE "partly covered",
          lines |->
            [ voteCosts        |-> ToFixed(reimbursedVoteCost, 2),
              accrued          |-> ToFixed(accruedExpensesUSD, 2),
              netGain          |-> ToFixed(netGainSOL, 2),
              currentProfit    |-> ToFixed(currentProfitUSD, 2),
              elapsed          |-> ToFixed(elapsedPct, 2),
              currentCoverage  |-> ToFixed(currentPercentCovered, 2),
              projectedNet     |-> ToFixed(projectedMonthlySOL, 2),
              projectedNetUSD  |-> ToFixed(projectedMonthlyUSD, 2),
              projectedProfit  |-> ToFixed(projectedProfitUSD, 2),
              projectedPercent |-> ToFixed(percentCovered, 1) ] ]

\* generateReport(startDate, currentDate, endDate, rewards) returns its report.
GenerateReport ==
    /\ report = <<>>
    /\ report' = <<GenerateReportFigures>>
    /\ UNCHANGED <<rewards, solanaPrice, monthlyExpenses, voteCostReimbursement,
                   startDate, currentDate, endDate, botReport,
                   fetchVars, resolveVars, cycleVars, botVars>>

\* The figures of the single-class MonthlyProfitabilityBot.run, which adds the
\* vote cost to the expenses as well.
BotReportFigures ==
    LET r == RewardsAsNumbers(rewards)
        price == Number(solanaPrice)
        reimbursedVoteCost ==
            ReimbursedVoteCost(r.totalVoteCost, voteCostReimbursement)
        totalRevenueSOL ==
            Add(Add(r.totalVoteRewards, r.totalJitoRewards), r.totalBlockRewards)
        totalGainSOL == Sub(totalRevenueSOL, reimbursedVoteCost)
        revenueUSD == Mul(totalGainSOL, price)
        voteCostUSD == Mul(reimbursedVoteCost, price)
        monthlyBaseExpensesUSD == Number(monthlyExpenses)
        monthlyTotalExpensesUSD == Add(monthlyBaseExpensesUSD, voteCostUSD)
        elapsedMs == currentDate - startDate
        totalCycleMs == endDate - startDate
        elapsedPct == ElapsedPct(elapsedMs, totalCycleMs)
        accruedBaseExpensesUSD ==
            AccruedExpenses(monthlyBaseExpensesUSD, elapsedMs, totalCycleMs)
        accruedTotalExpensesUSD == Add(accruedBaseExpensesUSD, voteCostUSD)
        projectedRevenueUSD == Projected(revenueUSD, elapsedMs, totalCycleMs)
        projectedProfitUSD == Sub(projectedRevenueUSD, monthlyTotalExpensesUSD)
        projectedPercentCovered ==
            PercentOf(projectedRevenueUSD, monthlyTotalExpensesUSD)
        percentCovered == PercentOf(revenueUSD, accruedTotalExpensesUSD)
    IN  [ reimbursedVoteCost      |-> reimbursedVoteCost,
          totalRevenueSOL         |-> totalRevenueSOL,
          totalGainSOL            |-> totalGainSOL,
          revenueUSD              |-> revenueUSD,
          voteCostUSD             |-> voteCostUSD,
          monthlyTotalExpensesUSD |-> monthlyTotalExpensesUSD,
          elapsedMs               |-> elapsedMs,
          totalCycleMs            |-> totalCycleMs,
          elapsedPct              |-> elapsedPct,
          accruedBaseExpensesUSD  |-> accruedBaseExpensesUSD,
          accruedTotalExpensesUSD |-> accruedTotalExpensesUSD,
          projectedRevenueUSD     |-> projectedRevenueUSD,
          projectedProfitUSD      |-> projectedProfitUSD,
          projectedPercentCovered |-> projectedPercentCovered,
          percentCovered          |-> percentCovered,
          onTrackOutcome          |-> OnTrackOutcome(projectedRevenueUSD,
                                                    monthlyTotalExpensesUSD),
          trackingStatus          |-> TrackingStatus(projectedRevenueUSD,
                                                    monthlyTotalExpensesUSD),
          status                  |-> IF Geq(percentCovered, Number(100))
                                      THEN "covered" ELSE "partly covered",
          lines |->
            [ voteCosts        |-> ToFixed(reimbursedVoteCost, 2),
              monthlyTotal     |-> ToFixed(monthlyTotalExpensesUSD, 2),
              accruedTotal     |-> ToFixed(accruedTotalExpensesUSD, 2),
              gained           |-> ToFixed(totalGainSOL, 2),
              accruedProfit    |-> ToFixed(Sub(revenueUSD,
                                               accruedTotalExpensesUSD), 2),
              elapsed          |-> ToFixed(elapsedPct, 2),
              coverage         |-> ToFixed(percentCovered, 2),
              projectedProfit  |-> ToFixed(projectedProfitUSD, 2),
              projectedPercent |-> ToFixed(projectedPercentCovered, 1) ] ]

\* The report part of the single-class run(), from the totals to the summary.
BotReport ==
    /\ botReport = <<>>
    /\ botReport' = <<BotReportFigures>>
    /\ UNCHANGED <<rewards, solanaPrice, monthlyExpenses, voteCostReimbursement,
                   startDate, currentDate, endDate, report,
                   fetchVars, resolveVars, cycleVars, botVars>>

\* --------------------------------------------------- billing cycle (run)
\* A Date at local midnight is its local year, month (0..11) and day of the
\* month; getTime() orders the dates, and is counted here in days.

CalendarYears == 2023..2024

IsLeap(y) == (y % 4 = 0 /\ y % 100 # 0) \/ y % 400 = 0

DaysInMonth(y, m) ==
    IF m = 1 THEN (IF IsLeap(y) THEN 29 ELSE 28)
    ELSE IF m \in {3, 5, 8, 10} THEN 30 ELSE 31

\* new Date(year, month, day) for month >= 0 and day >= 1: a month past
\* December is carried into the next year, a day past the end of the month
\* into the next month.
RECURSIVE NewDate(_, _, _)
NewDate(year, month, day) ==
    IF month > 11 THEN NewDate(year + 1, month - 12, day)
    ELSE IF day > DaysInMonth(year, month)
         THEN NewDate(year, month + 1, day - DaysInMonth(year, month))
    ELSE [year |-> year, month |-> month, day |-> day]

RECURSIVE DaysBeforeYear(_)
DaysBeforeYear(y) ==
    IF y < SetMin(CalendarYears) THEN 0
    ELSE (IF IsLeap(y - 1) THEN 366 ELSE 365) + DaysBeforeYear(y - 1)

RECURSIVE DaysBeforeMonth(_, _)
DaysBeforeMonth(y, m) ==
    IF m = 0 THEN 0 ELSE DaysInMonth(y, m - 1) + DaysBeforeMonth(y, m - 1)

\* date.getTime(), in days
GetTime(date) ==
    DaysBeforeYear(date.year) + DaysBeforeMonth(date.year, date.month) + date.day

\* getMostRecentBillingDate(targetDay), today being t
GetMostRecentBillingDate(t, targetDay) ==
    LET currentDay == t.day
        month == IF currentDay >= targetDay THEN t.month ELSE t.month - 1
        year == IF month < 0 THEN t.year - 1 ELSE t.year
    IN  NewDate(year, (month + 12) % 12, targetDay)

\* nextBillingDate = new Date(startDate);
\* nextBillingDate.setMonth(startDate.getMonth() + 1)
NextBillingDate(start) == NewDate(start.year, start.month + 1, start.day)

\* run() builds the cycle: now, the most recent billing date and the next one.
\* now is a moment of today, so it is at or after today's midnight.
BuildCycle ==
    /\ cycle = <<>>
    /\ cycle' = <<[ now   |-> today,
                    start |-> GetMostRecentBillingDate(today, monthlyBillingDay),
                    end   |-> NextBillingDate(
                                GetMostRecentBillingDate(today,
                                                         monthlyBillingDay)) ]>>
    /\ UNCHANGED <<today, monthlyBillingDay, fetchVars, resolveVars, reportVars, botVars>>

\* ------------------------------------------------------------- Logger
\* What the Logger is given to log when it is exercised on its own.
Messages == {"started", "finished"}

\* level.toUpperCase()
ToUpperCase(level) ==
    CASE level = "info"  -> "INFO"
      [] level = "warn"  -> "WARN"
      [] level = "error" -> "ERROR"

\* Logger.format: the level in capitals, the prefix and the message (the
\* timestamp is left out).
Format(level, message) ==
    [level |-> ToUpperCase(level), prefix |-> loggerOptions.prefix,
     message |-> message]

\* The console method each of info, warn and error writes with.
ConsoleMethod(level) ==
    CASE level = "info"  -> "log"
      [] level = "warn"  -> "warn"
      [] level = "error" -> "error"

\* A line console.error writes outside Logger.format.
RawError(text) ==
    [stream |-> "error",
     text |-> [level |-> "", prefix |-> "", message |-> [kind |-> text]]]

\* The constructor of Logger: a messenger is built only when Telegram is
\* enabled and both the bot token and the chat id are given.
HoldsMessenger(options) ==
    options.telegramEnabled /\ options.botToken # "" /\ options.chatId # ""

\* The guard of maybeSendToTelegram.
SendsToTelegram == loggerOptions.telegramEnabled /\ telegram

\* TelegramBotMessenger.sendMessage: a rejected request is logged and thrown
\* again.
SendMessageOutcome(delivered) == IF delivered THEN "resolved" ELSE "rejected"

MaybeSendPropagates(sendOutcome) == sendOutcome

\* maybeSendToTelegram: whatever sendMessage throws is caught and logged.
MaybeSendOutcome(sendOutcome) == "resolved"

\* The first half of info, warn and error: the formatted message is written
\* to the console, and handed to Telegram if the Logger sends there.
LogWrite(level, message) ==
    /\ console' = Append(console, [stream |-> ConsoleMethod(level),
                                   text |-> Format(level, message)])
    /\ pending' = <<Format(level, message)>>
    /\ logPc' = IF SendsToTelegram THEN "sending" ELSE "idle"
    /\ UNCHANGED <<loggerOptions, telegram, telegramSent, deliveryFailures>>

\* Telegram accepts the message: the Logger call returns.
TelegramDelivered ==
    /\ telegramSent' = Append(telegramSent, pending[1])
    /\ logPc' = (IF MaybeSendOutcome(SendMessageOutcome(TRUE)) = "resolved"
                 THEN "idle" ELSE "thrown")
    /\ UNCHANGED <<loggerOptions, telegram, pending, console, deliveryFailures>>

\* The request to Telegram is rejected: sendMessage logs it and throws,
\* maybeSendToTelegram logs it again, and the Logger call returns.
TelegramFailed ==
    /\ console' = console \o <<RawError("Failed to send Telegram message"),
                               RawError("Failed to send log to Telegram")>>
    /\ deliveryFailures' = deliveryFailures + 1
    /\ logPc' = (IF MaybeSendOutcome(SendMessageOutcome(FALSE)) = "resolved"
                 THEN "idle" ELSE "thrown")
    /\ UNCHANGED <<loggerOptions, telegram, pending, telegramSent>>

OtherThanLogger == <<fetchVars, resolveVars, reportVars, cycleVars, runVars,
                     sfdpVars, latencyVars>>

LoggerCall(level) ==
    /\ logPc = "idle"
    /\ Cardinality({i \in 1..Len(console) : console[i].text.level # ""})
         < MaxMessages
    /\ \E m \in Messages : LogWrite(level, [kind |-> m])
    /\ UNCHANGED OtherThanLogger

LoggerInfo == LoggerCall("info")

LoggerWarn == LoggerCall("warn")

LoggerError == LoggerCall("error")

TelegramResolve ==
    /\ logPc = "sending"
    /\ TelegramDelivered
    /\ UNCHANGED OtherThanLogger

TelegramReject ==
    /\ logPc = "sending"
    /\ TelegramFailed
    /\ UNCHANGED OtherThanLogger

\* -------------------------------------------- MonthlyProfitabilityBot.run
\* The calls of run(): the one main() makes and those of the schedule.
Runs == {"by main", "by the schedule"}

\* parseFloat of the monthly expenses the bot was constructed with.  Only the
\* strings of the configurations below are listed; -1 stands for NaN.
ParseFloat(s) ==
    CASE s = ""  -> -1
      [] s = "0" -> 0
      [] s = "1" -> 1

\* !value for a string: only the empty string is falsy.
Missing(s) == s = ""

ValidationSkipsReimbursement(c) ==
    IF Missing(c.voteAccountAddress) \/ Missing(c.identityAddress)
         \/ Missing(c.monthlyExpenses)
    THEN <<"Missing required configuration">>
    ELSE IF c.monthlyBillingDay < 1 \/ c.monthlyBillingDay > 31
    THEN <<"monthlyBillingDay must be between 1 and 31">>
    ELSE <<>>

\* The three checks run() opens with, in their order: the message of the one
\* that aborts the run, or none.
ValidationFailure(c) ==
    IF Missing(c.voteAccountAddress) \/ Missing(c.identityAddress)
         \/ Missing(c.monthlyExpenses)
    THEN <<"Missing required configuration">>
    ELSE IF c.monthlyBillingDay < 1 \/ c.monthlyBillingDay > 31
    THEN <<"monthlyBillingDay must be between 1 and 31">>
    ELSE IF c.voteCostReimbursement < 0 \/ c.voteCostReimbursement > 100
    THEN <<"voteCostReimbursement must be between 0 and 100">>
    ELSE <<>>

\* The requests run() awaits from the chain, in their order.
ChainCalls == <<"getEpochInfo", "getEpochSchedule", "getSlot", "getBlockTime">>

ChainCallNames == {ChainCalls[i] : i \in DOMAIN ChainCalls}

\* The requests and calls of a run are remembered with how each ended.
Issued(name) == [name |-> name, status |-> "pending"]

Settled(c, status) == [c EXCEPT ![Len(c)].status = status]

RejectionSkipsToFetch(call) ==
    IF call \in ChainCallNames THEN "logFetching" ELSE "rejected"

\* Where run() stands after the request it awaits at `call` is rejected:
\* nothing in run() catches, so its promise is rejected.
AfterRejection(call) == "rejected"

\* startDate.getTime() / 1000, for a date of the calendar.
SecondsPerDay == 24 * 60 * 60

EpochSeconds(date) == GetTime(date) * SecondsPerDay

\* The exclusive upper bound run() hands to fetchRewards.
EndEpochOf(current) == current - 1

\* How a run that has ended is remembered.
RunRecord(result, at) ==
    [ number   |-> runNumber,
      result   |-> result,
      at       |-> at,
      current  |-> currentEpoch,
      range    |-> <<startEpoch, endEpoch>>,
      calls    |-> IF result = "rejected" THEN Settled(calls, "rejected")
                   ELSE calls,
      failed   |-> failed,
      added    |-> added,
      rewards  |-> rewards ]

OtherThanRun == <<bulk, epochsWithEntry, resolveVars, solanaPrice,
                  monthlyExpenses, voteCostReimbursement, botReport, today,
                  monthlyBillingDay, loggerOptions, telegram, config,
                  chainEpoch, sfdpVars, latencyVars>>

\* main() calls run(), and so does every firing of the schedule, which main()
\* sets up once its own call has returned.  run() goes as far as its first
\* await: an invalid configuration is reported through the logger; a valid
\* one gives the cycle and the first request to the chain.
StartRun ==
    /\ runPc \in {"idle", "returned"}
    /\ runNumber < Cardinality(Runs)
    /\ logPc = "idle"
    /\ runNumber' = runNumber + 1
    /\ calls' = (IF ValidationFailure(config) = <<>>
                 THEN <<Issued(ChainCalls[1])>> ELSE <<>>)
    /\ IF ValidationFailure(config) # <<>>
       THEN /\ LogWrite("error", [kind |-> ValidationFailure(config)[1]])
            /\ runPc' = "exiting"
            /\ UNCHANGED cycle
       ELSE /\ cycle' = <<[ now   |-> today,
                            start |-> GetMostRecentBillingDate(
                                        today, monthlyBillingDay),
                            end   |-> NextBillingDate(
                                        GetMostRecentBillingDate(
                                          today, monthlyBillingDay)) ]>>
            /\ runPc' = ChainCalls[1]
            /\ UNCHANGED logVars
    /\ UNCHANGED <<OtherThanRun, plan, history, pc, startEpoch, endEpoch,
                   totals, earliestEpochInAPI, epoch, requests, failed, added,
                   warnings, rewards, startDate, currentDate, endDate, report,
                   currentEpoch, runLog, exitCode>>

\* process.exit(1), once the logger has returned.
RunExit ==
    /\ runPc = "exiting"
    /\ logPc = "idle"
    /\ exitCode' = <<1>>
    /\ runPc' = "exited"
    /\ UNCHANGED <<OtherThanRun, fetchVars, reportVars, cycle, logVars,
                   runNumber, currentEpoch, runLog, calls>>

\* The chain answers the request run() awaits.  After the last of them run()
\* has its range, and logs it.
ChainResolve ==
    /\ runPc \in ChainCallNames
    /\ currentEpoch' = (IF runPc = "getEpochInfo" THEN chainEpoch
                        ELSE currentEpoch)
    /\ IF runPc = "getBlockTime"
       THEN /\ startEpoch' = FloorAtZero(GetEpoch(epochSchedule,
                                StartSlot(EpochSeconds(cycle[1].start))))
            /\ endEpoch' = EndEpochOf(currentEpoch)
            /\ LogWrite("info", [kind |-> "Fetching validator rewards"])
            /\ runPc' = "logFetching"
            /\ calls' = Settled(calls, "resolved")
       ELSE /\ \E i \in DOMAIN ChainCalls :
                 /\ ChainCalls[i] = runPc
                 /\ runPc' = ChainCalls[i + 1]
                 /\ calls' = Append(Settled(calls, "resolved"),
                                    Issued(ChainCalls[i + 1]))
            /\ UNCHANGED <<startEpoch, endEpoch, logVars>>
    /\ UNCHANGED <<OtherThanRun, plan, history, pc, totals,
                   earliestEpochInAPI, epoch, requests, failed, added,
                   warnings, rewards, startDate, currentDate, endDate, report,
                   cycle, runNumber, runLog, exitCode>>

\* The request run() awaits is rejected.
RunRejected(at) ==
    /\ runPc' = AfterRejection(at)
    /\ calls' = Settled(calls, "rejected")
    /\ runLog' = (IF AfterRejection(at) = "rejected"
                  THEN Append(runLog, RunRecord("rejected", at)) ELSE runLog)

ChainReject ==
    /\ runPc \in ChainCallNames
    /\ RunRejected(runPc)
    /\ UNCHANGED <<OtherThanRun, fetchVars, reportVars, cycle, logVars,
                   runNumber, currentEpoch, exitCode>>

\* run() calls fetchRewards(startEpoch, endEpoch), once the logger has
\* returned.
RunFetchRewards ==
    /\ runPc = "logFetching"
    /\ logPc = "idle"
    /\ runPc' = "fetchRewards"
    /\ calls' = Append(calls, Issued("fetchRewards"))
    /\ EnterFetchRewards(startEpoch, endEpoch)
    /\ UNCHANGED <<plan, logVars, config, chainEpoch, runNumber, currentEpoch,
                   runLog, exitCode, sfdpVars, latencyVars>>

\* fetchRewards has returned: run() hands the totals and the cycle to
\* generateReport, which asks for the price.
RunFetchReturned ==
    /\ runPc = "fetchRewards"
    /\ pc = "returned"
    /\ rewards' = totals
    /\ startDate' = GetTime(cycle[1].start)
    /\ currentDate' = GetTime(cycle[1].now)
    /\ endDate' = GetTime(cycle[1].end)
    /\ runPc' = "getPrice"
    /\ calls' = Append(Settled(calls, "resolved"), Issued("getPrice"))
    /\ UNCHANGED <<OtherThanRun, fetchVars, report, cycle, logVars, runNumber,
                   currentEpoch, runLog, exitCode>>

\* fetchRewards has thrown.
RunFetchThrown ==
    /\ runPc = "fetchRewards"
    /\ pc = "thrown"
    /\ RunRejected("fetchRewards")
    /\ UNCHANGED <<OtherThanRun, fetchVars, reportVars, cycle, logVars,
                   runNumber, currentEpoch, exitCode>>

\* The price arrives: generateReport returns the report and run() logs it.
PriceResolve ==
    /\ runPc = "getPrice"
    /\ report' = <<GenerateReportFigures>>
    /\ LogWrite("info", [kind |-> "report", run |-> runNumber,
                         rewards |-> rewards, range |-> <<startEpoch, endEpoch>>])
    /\ runPc' = "logReport"
    /\ calls' = Settled(calls, "resolved")
    /\ UNCHANGED <<OtherThanRun, fetchVars, rewards, startDate, currentDate,
                   endDate, cycle, runNumber, currentEpoch, runLog, exitCode>>

PriceReject ==
    /\ runPc = "getPrice"
    /\ RunRejected("getPrice")
    /\ UNCHANGED <<OtherThanRun, fetchVars, reportVars, cycle, logVars,
                   runNumber, currentEpoch, exitCode>>

\* run() returns, once the logger has returned.
RunReturn ==
    /\ runPc = "logReport"
    /\ logPc = "idle"
    /\ runPc' = "returned"
    /\ runLog' = Append(runLog, RunRecord("returned", "end"))
    /\ UNCHANGED <<OtherThanRun, fetchVars, reportVars, cycle, logVars,
                   runNumber, currentEpoch, exitCode, calls>>

\* ------------------------------------------------- SFDPComplianceBot
\* A string is the sequence of its characters.
DigitChars == <<"0", "1", "2", "3", "4", "5", "6", "7", "8", "9">>

\* \d
IsDigit(c) == \E i \in DOMAIN DigitChars : DigitChars[i] = c

DigitValue(c) == (CHOOSE i \in DOMAIN DigitChars : DigitChars[i] = c) - 1

\* /^\d\.\d{3}\.\d{5}$/.test(s)
TestFiredancer(s) ==
    /\ Len(s) = 11
    /\ \A i \in {1, 3, 4, 5, 7, 8, 9, 10, 11} : IsDigit(s[i])
    /\ \A i \in {2, 6} : s[i] = "."

\* s.split("."): the pieces between the dots, an empty string giving one
\* empty piece.
RECURSIVE Split(_)
Split(s) ==
    IF \A i \in 1..Len(s) : s[i] # "." THEN <<s>>
    ELSE LET d == CHOOSE i \in 1..Len(s) :
                    s[i] = "." /\ \A j \in 1..(i - 1) : s[j] # "."
         IN  <<SubSeq(s, 1, d - 1)>> \o Split(SubSeq(s, d + 1, Len(s)))

\* Number(p) for a piece p: the empty string is 0, a string of digits its
\* decimal value, and anything else NaN, written as no value.
RECURSIVE DecimalValue(_)
DecimalValue(p) ==
    IF p = <<>> THEN 0
    ELSE 10 * DecimalValue(SubSeq(p, 1, Len(p) - 1)) + DigitValue(p[Len(p)])

NumberOf(p) ==
    IF \A i \in 1..Len(p) : IsDigit(p[i]) THEN <<DecimalValue(p)>> ELSE <<>>

\* s.split(".").map(Number)
RECURSIVE MapNumber(_)
MapNumber(pieces) ==
    IF pieces = <<>> THEN <<>>
    ELSE <<NumberOf(Head(pieces))>> \o MapNumber(Tail(pieces))

\* parts[i] of a destructuring or an index: undefined past the end, which
\* compares as NaN does.
PartAt(parts, i) == IF i \in DOMAIN parts THEN parts[i] ELSE <<>>

\* parts[i] ?? 0
PartOrZero(parts, i) == IF i \in DOMAIN parts THEN parts[i] ELSE <<0>>

\* a > b, a < b and a >= b on numbers: false when either is NaN.
GreaterThan(a, b) == a # <<>> /\ b # <<>> /\ a[1] > b[1]

LessThan(a, b) == a # <<>> /\ b # <<>> /\ a[1] < b[1]

AtLeast(a, b) == a # <<>> /\ b # <<>> /\ a[1] >= b[1]

\* v.replace(/[^\d.]/g, "")
Normalize(v) == SelectSeq(v, LAMBDA c : IsDigit(c) \/ c = ".")

MinimumAlwaysAgave(current, required) == required.agave_min_version

\* The minimum compareVersions compares against.
RequiredVersion(current, required) ==
    IF TestFiredancer(current) THEN required.firedancer_min_version
    ELSE required.agave_min_version

\* The Firedancer branch: major, minor and patch in turn.
CompareFiredancer(c, r) ==
    IF GreaterThan(PartAt(c, 1), PartAt(r, 1)) THEN TRUE
    ELSE IF LessThan(PartAt(c, 1), PartAt(r, 1)) THEN FALSE
    ELSE IF GreaterThan(PartAt(c, 2), PartAt(r, 2)) THEN TRUE
    ELSE IF LessThan(PartAt(c, 2), PartAt(r, 2)) THEN FALSE
    ELSE AtLeast(PartAt(c, 3), PartAt(r, 3))

\* The loop of the Agave branch, from index i on (n is the longer length).
RECURSIVE CompareAgaveFrom(_, _, _, _)
CompareAgaveFrom(a, b, i, n) ==
    IF i > n THEN TRUE
    ELSE IF GreaterThan(PartOrZero(a, i), PartOrZero(b, i)) THEN TRUE
    ELSE IF LessThan(PartOrZero(a, i), PartOrZero(b, i)) THEN FALSE
    ELSE CompareAgaveFrom(a, b, i + 1, n)

CompareAgave(a, b) ==
    CompareAgaveFrom(a, b, 1, IF Len(a) > Len(b) THEN Len(a) ELSE Len(b))

\* compareVersions(current, required)
CompareVersions(current, required) ==
    IF TestFiredancer(current)
    THEN CompareFiredancer(
           MapNumber(Split(current)),
           MapNumber(Split(RequiredVersion(current, required))))
    ELSE CompareAgave(
           MapNumber(Split(Normalize(current))),
           MapNumber(Split(Normalize(RequiredVersion(current, required)))))

\* How a version is written from its numbers: each in decimal, with leading
\* zeros up to the width asked for, and dots between them.
RECURSIVE Decimal(_)
Decimal(n) ==
    IF n < 10 THEN <<DigitChars[n + 1]>>
    ELSE Decimal(n \div 10) \o <<DigitChars[(n % 10) + 1]>>

RECURSIVE Padded(_, _)
Padded(digits, width) ==
    IF Len(digits) >= width THEN digits ELSE Padded(<<"0">> \o digits, width)

RECURSIVE Written(_, _)
Written(numbers, widths) ==
    IF numbers = <<>> THEN <<>>
    ELSE Padded(Decimal(Head(numbers)), Head(widths))
           \o (IF Len(numbers) = 1 THEN <<>>
               ELSE <<".">> \o Written(Tail(numbers), Tail(widths)))

\* The networks run() checks, in their order.
Networks == {"mainnet", "testnet"}

\* The inputs of checkNetwork: the validator's version, two minimum versions
\* of which it meets the first only, requirement lists in any order with
\* distinct epochs, and the epochs the chain may be at.
YourVersion == Written(<<2, 2>>, <<1, 1>>)

NodeVersions == {YourVersion}

MinimumVersions == {Written(<<2, 0>>, <<1, 1>>), Written(<<2, 10>>, <<1, 1>>)}

RequirementEpochs == {1, 2, 3}

Requirement(e, v) ==
    [ epoch |-> e, agave_min_version |-> v,
      firedancer_min_version |-> Written(<<0, 310, 20106>>, <<1, 3, 5>>) ]

RequirementLists ==
    {list \in UNION {[1..n -> {Requirement(e, v) : e \in RequirementEpochs,
                                                   v \in MinimumVersions}] :
                       n \in 0..MaxRequirements} :
       \A i, j \in DOMAIN list : list[i].epoch = list[j].epoch => i = j}

NetworkEpochs == {0} \cup RequirementEpochs

\* requiredVersions.filter(keep), for the two filters of checkNetwork.
UpTo(list, e) == SelectSeq(list, LAMBDA v : v.epoch <= e)

After(list, e) == SelectSeq(list, LAMBDA v : v.epoch > e)

\* list.sort((a, b) => b.epoch - a.epoch): by falling epoch, entries of one
\* epoch keeping their order.
RECURSIVE InsertFalling(_, _)
InsertFalling(sorted, v) ==
    IF sorted = <<>> THEN <<v>>
    ELSE IF Head(sorted).epoch >= v.epoch
         THEN <<Head(sorted)>> \o InsertFalling(Tail(sorted), v)
         ELSE <<v>> \o sorted

RECURSIVE SortFalling(_)
SortFalling(list) ==
    IF list = <<>> THEN <<>>
    ELSE InsertFalling(SortFalling(SubSeq(list, 1, Len(list) - 1)),
                       list[Len(list)])

\* list.sort((a, b) => a.epoch - b.epoch)
RECURSIVE InsertRising(_, _)
InsertRising(sorted, v) ==
    IF sorted = <<>> THEN <<v>>
    ELSE IF Head(sorted).epoch <= v.epoch
         THEN <<Head(sorted)>> \o InsertRising(Tail(sorted), v)
         ELSE <<v>> \o sorted

RECURSIVE SortRising(_)
SortRising(list) ==
    IF list = <<>> THEN <<>>
    ELSE InsertRising(SortRising(SubSeq(list, 1, Len(list) - 1)),
                      list[Len(list)])

\* sorted[0]: the first entry, or none.
First(sorted) == IF sorted = <<>> THEN <<>> ELSE <<Head(sorted)>>

CurrentRequirementOldest(list, e) == First(SortRising(UpTo(list, e)))

CurrentRequirement(list, e) == First(SortFalling(UpTo(list, e)))

NextRequirement(list, e) == First(SortRising(After(list, e)))

\* The condition under which checkNetwork builds and logs its report.
Reports(only, isValidCurrent, next, isValidNext) ==
    ~only \/ ~isValidCurrent \/ (next # <<>> /\ ~isValidNext)

\* What checkNetwork computes once it has the requirements, the version and
\* the epoch; it is reached only with a current requirement.
Verdict(list, version, e, only) ==
    LET cur  == CurrentRequirement(list, e)
        next == NextRequirement(list, e)
        isValidCurrent == CompareVersions(version, cur[1])
        isValidNext ==
            IF next # <<>> THEN CompareVersions(version, next[1]) ELSE TRUE
    IN  [ currentRequirement |-> cur,
          nextRequirement    |-> next,
          isValidCurrent     |-> isValidCurrent,
          isValidNext        |-> isValidNext,
          reported |-> Reports(only, isValidCurrent, next, isValidNext),
          report   |->
            [ kind     |-> "version check",
              network  |-> network,
              epoch    |-> e,
              required |-> RequiredVersion(version, cur[1]),
              yours    |-> version,
              verdict  |-> IF isValidCurrent THEN "sufficient" ELSE "outdated",
              warning  |->
                IF next # <<>> /\ ~isValidNext
                THEN <<[epoch   |-> next[1].epoch,
                        version |-> RequiredVersion(version, next[1])]>>
                ELSE <<>> ] ]

OtherThanSfdp == <<fetchVars, resolveVars, reportVars, cycleVars, runVars,
                   latencyVars>>

SfdpConstants == <<onlyLogIssues, providedVersion, components, compared>>

\* run() of the compliance bot calls checkNetwork for mainnet, and for
\* testnet once that has returned: the requirements are asked for.
CheckNetwork ==
    /\ \/ checkPc = "idle" /\ network' = "mainnet"
       \/ checkPc = "returned" /\ network = "mainnet" /\ network' = "testnet"
    /\ checkPc' = "fetchRequiredVersions"
    /\ verdict' = <<>>
    /\ UNCHANGED <<requiredVersions, currentVersion, networkEpoch,
                   SfdpConstants, logVars, OtherThanSfdp>>

\* After the version is known: without one the bot logs that the validator
\* was not found; with one it asks for the epoch.
VersionKnown(version) ==
    /\ currentVersion' = version
    /\ IF version = <<>>
       THEN /\ LogWrite("error", [kind |-> "Could not find validator",
                                  network |-> network])
            /\ checkPc' = "logNotFound"
       ELSE /\ checkPc' = "getEpochInfo"
            /\ UNCHANGED logVars

\* The requirements arrive; a version given to the constructor is used,
\* otherwise the cluster nodes are asked for.
RequiredResolve ==
    /\ checkPc = "fetchRequiredVersions"
    /\ \E list \in RequirementLists : requiredVersions' = list
    /\ IF providedVersion[network] # <<>>
       THEN VersionKnown(providedVersion[network])
       ELSE /\ checkPc' = "getClusterNodes"
            /\ UNCHANGED <<currentVersion, logVars>>
    /\ UNCHANGED <<network, networkEpoch, verdict, SfdpConstants,
                   OtherThanSfdp>>

\* The cluster nodes arrive, with or without the validator among them.
NodesResolve ==
    /\ checkPc = "getClusterNodes"
    /\ \E version \in NodeVersions \cup {<<>>} : VersionKnown(version)
    /\ UNCHANGED <<network, requiredVersions, networkEpoch, verdict,
                   SfdpConstants, OtherThanSfdp>>

\* The epoch arrives: the check is made and, if it is to be, logged.  Without
\* a requirement at or before the epoch, reading the minimum version throws.
EpochResolve ==
    /\ checkPc = "getEpochInfo"
    /\ \E e \in NetworkEpochs :
         /\ networkEpoch' = e
         /\ IF CurrentRequirement(requiredVersions, e) = <<>>
            THEN /\ checkPc' = "rejected"
                 /\ UNCHANGED <<verdict, logVars>>
            ELSE /\ verdict' = <<Verdict(requiredVersions, currentVersion, e,
                                         onlyLogIssues)>>
                 /\ IF Verdict(requiredVersions, currentVersion, e,
                               onlyLogIssues).reported
                    THEN /\ LogWrite("info",
                                     Verdict(requiredVersions, currentVersion,
                                             e, onlyLogIssues).report)
                         /\ checkPc' = "logReport"
                    ELSE /\ checkPc' = "returned"
                         /\ UNCHANGED logVars
    /\ UNCHANGED <<network, requiredVersions, currentVersion, SfdpConstants,
                   OtherThanSfdp>>

\* A request of checkNetwork is rejected, and checkNetwork and run() with it.
CheckReject ==
    /\ checkPc \in {"fetchRequiredVersions", "getClusterNodes", "getEpochInfo"}
    /\ checkPc' = "rejected"
    /\ UNCHANGED <<network, requiredVersions, currentVersion, networkEpoch,
                   verdict, SfdpConstants, logVars, OtherThanSfdp>>

\* checkNetwork returns once the logger has.
CheckReturn ==
    /\ checkPc \in {"logNotFound", "logReport"}
    /\ logPc = "idle"
    /\ checkPc' = "returned"
    /\ UNCHANGED <<network, requiredVersions, currentVersion, networkEpoch,
                   verdict, SfdpConstants, logVars, OtherThanSfdp>>

\* compareVersions applied to the version and the requirement at hand.
Compare ==
    /\ compared = <<>>
    /\ compared' = <<CompareVersions(currentVersion, requiredVersions[1])>>
    /\ UNCHANGED <<network, checkPc, requiredVersions, currentVersion,
                   networkEpoch, verdict, onlyLogIssues, providedVersion,
                   components, logVars, OtherThanSfdp>>

\* ------------------------------------------------ slot latency benchmark
\* The two measurements main() starts, by their labels.
Measurements == {"Localhost", "Mainnet RPC"}

\* slotTimes.reduce((a, b) => a + b, 0)
RECURSIVE SumOf(_)
SumOf(times) == IF times = <<>> THEN 0 ELSE Head(times) + SumOf(Tail(times))

\* The average of the recorded intervals: their sum over their number.
Mean(times) == Div(Number(SumOf(times)), Number(Len(times)))

ReachedOneEarly(n) == n >= SAMPLE_COUNT - 1

\* count >= SAMPLE_COUNT
Reached(n) == n >= SAMPLE_COUNT

OtherThanLatency == <<fetchVars, resolveVars, reportVars, cycleVars, logVars,
                      runVars, sfdpVars>>

\* main() calls measureSlotLatency for both connections inside Promise.all:
\* each takes its first timestamp and registers its listener.
StartMeasuring ==
    /\ mainPc = "idle"
    /\ mainPc' = "measuring"
    /\ listening' = [m \in Measurements |-> TRUE]
    /\ lastTimestamp' = [m \in Measurements |-> clock]
    /\ UNCHANGED <<clock, count, slotTimes, removals, resolvedAvg, printed,
                   differential, OtherThanLatency>>

\* A slot change reaches the listener of m at the time now: the interval
\* since the last timestamp is recorded unless this is the first callback,
\* and with the last sample the listener's removal is requested, the average
\* printed and the promise resolved (a promise keeps its first value).
SlotChange(m) ==
    /\ mainPc # "idle"
    /\ listening[m]
    /\ count[m] <= SAMPLE_COUNT
    /\ \E now \in clock..MaxClock :
         /\ clock' = now
         /\ lastTimestamp' = [lastTimestamp EXCEPT ![m] = now]
         /\ slotTimes' =
              [slotTimes EXCEPT
                 ![m] = IF count[m] > 0
                        THEN Append(@, now - lastTimestamp[m]) ELSE @]
    /\ count' = [count EXCEPT ![m] = @ + 1]
    /\ IF Reached(count'[m])
       THEN /\ removals' = [removals EXCEPT ![m] = @ + 1]
            /\ printed' = Append(printed,
                                 [label |-> m,
                                  avg |-> ToFixed(Mean(slotTimes'[m]), 2)])
            /\ resolvedAvg' =
                 [resolvedAvg EXCEPT
                    ![m] = IF @ = <<>> THEN <<Mean(slotTimes'[m])>> ELSE @]
       ELSE UNCHANGED <<removals, printed, resolvedAvg>>
    /\ UNCHANGED <<mainPc, listening, differential, OtherThanLatency>>

LocalSlotChange == SlotChange("Localhost")

RpcSlotChange == SlotChange("Mainnet RPC")

\* The removal a measurement asked for takes effect: no callback follows.
ListenerRemoved ==
    \E m \in Measurements :
        /\ listening[m]
        /\ removals[m] > 0
        /\ listening' = [listening EXCEPT ![m] = FALSE]
        /\ UNCHANGED <<mainPc, clock, lastTimestamp, count, slotTimes,
                       removals, resolvedAvg, printed, differential,
                       OtherThanLatency>>

\* Promise.all has both averages: main() prints their difference.
PrintDifferential ==
    /\ mainPc = "measuring"
    /\ \A m \in Measurements : resolvedAvg[m] # <<>>
    /\ differential' = <<ToFixed(Sub(resolvedAvg["Localhost"][1],
                                     resolvedAvg["Mainnet RPC"][1]), 2)>>
    /\ mainPc' = "done"
    /\ UNCHANGED <<clock, listening, lastTimestamp, count, slotTimes,
                   removals, resolvedAvg, printed, OtherThanLatency>>

\* ------------------------------------------------------- specifications

IdleResolve ==
    /\ recentSlot = 0
    /\ blockTime = 0
    /\ nowSeconds = 0
    /\ epochSchedule = [boundaries |-> {}]
    /\ resolved = <<>>

IdleReport ==
    /\ rewards = ZeroTotals
    /\ solanaPrice = 1
    /\ monthlyExpenses = 0
    /\ voteCostReimbursement = 0
    /\ startDate = 0
    /\ currentDate = 0
    /\ endDate = 0
    /\ report = <<>>
    /\ botReport = <<>>

IdleCycle ==
    /\ today = [year |-> SetMin(CalendarYears), month |-> 0, day |-> 1]
    /\ monthlyBillingDay = 1
    /\ cycle = <<>>

IdleLogger ==
    /\ loggerOptions = [telegramEnabled |-> FALSE, botToken |-> "",
                        chatId |-> "", prefix |-> ""]
    /\ telegram = FALSE
    /\ logPc = "idle"
    /\ pending = <<>>
    /\ console = <<>>
    /\ telegramSent = <<>>
    /\ deliveryFailures = 0

IdleRun ==
    /\ config = [voteAccountAddress |-> "", identityAddress |-> "",
                 monthlyExpenses |-> "", monthlyBillingDay |-> 1,
                 voteCostReimbursement |-> 0]
    /\ chainEpoch = 0
    /\ runPc = "idle"
    /\ runNumber = 0
    /\ currentEpoch = 0
    /\ runLog = <<>>
    /\ exitCode = <<>>
    /\ calls = <<>>

IdleSfdp ==
    /\ network = ""
    /\ checkPc = "idle"
    /\ requiredVersions = <<>>
    /\ currentVersion = <<>>
    /\ networkEpoch = 0
    /\ verdict = <<>>
    /\ onlyLogIssues = FALSE
    /\ providedVersion = [n \in Networks |-> <<>>]
    /\ components = <<>>
    /\ compared = <<>>

IdleLatency ==
    /\ mainPc = "idle"
    /\ clock = 0
    /\ listening = [m \in Measurements |-> FALSE]
    /\ lastTimestamp = [m \in Measurements |-> 0]
    /\ count = [m \in Measurements |-> 0]
    /\ slotTimes = [m \in Measurements |-> <<>>]
    /\ removals = [m \in Measurements |-> 0]
    /\ resolvedAvg = [m \in Measurements |-> <<>>]
    /\ printed = <<>>
    /\ differential = <<>>

IdleBots ==
    /\ IdleLogger
    /\ IdleRun
    /\ IdleSfdp
    /\ IdleLatency

IdleFetch ==
    /\ history = <<>>
    /\ pc = "idle"
    /\ startEpoch = 0
    /\ endEpoch = 0
    /\ totals = ZeroTotals
    /\ earliestEpochInAPI = Infinity
    /\ epoch = 0
    /\ requests = <<>>
    /\ failed = <<>>
    /\ added = <<>>
    /\ warnings = <<>>

\* One call with any range, against any provider contents.
InitGeneric ==
    /\ bulk \in BulkResponses(0..MaxEpoch)
    /\ epochsWithEntry \in SUBSET (0..MaxEpoch)
    /\ plan \in {<<(<<s, n>>)>> : s \in 0..MaxEpoch, n \in 0..(MaxEpoch + 1)}

\* Scenario A of the specification: the range [100, 110), a bulk response
\* holding the epochs 105..109 only, a per-epoch provider holding the
\* validator's record for each of 100..104 (and any of 105..109).
ScenarioRange == <<100, 110>>

ScenarioStart == ScenarioRange[1]

ScenarioEnd == ScenarioRange[2]

ScenarioEarliest == ScenarioStart + 5

InitScenarioA ==
    /\ bulk \in {[ok |-> TRUE,
                  data |-> Ascending(ScenarioEarliest..(ScenarioEnd - 1))],
                 [ok |-> TRUE,
                  data |-> Descending(ScenarioEarliest..(ScenarioEnd - 1))]}
    /\ epochsWithEntry \in
         {(ScenarioStart..(ScenarioEarliest - 1)) \cup X :
            X \in SUBSET (ScenarioEarliest..(ScenarioEnd - 1))}
    /\ plan = <<(<<ScenarioStart, ScenarioEnd>>)>>

Init ==
    /\ InitGeneric \/ InitScenarioA
    /\ IdleFetch
    /\ IdleBots
    /\ IdleReport
    /\ IdleCycle
    /\ IdleResolve

\* Three calls against the same providers: a range and the two parts of a
\* partition of it.
InitPartition ==
    /\ bulk \in BulkResponses(0..MaxEpoch)
    /\ epochsWithEntry \in SUBSET (0..MaxEpoch)
    /\ plan \in {<<(<<t[1], t[3]>>), (<<t[1], t[2]>>), (<<t[2], t[3]>>)>> :
                   t \in {u \in (0..MaxEpoch) \X (0..MaxEpoch)
                                  \X (0..(MaxEpoch + 1)) :
                            u[1] <= u[2] /\ u[2] <= u[3]}}
    /\ IdleFetch
    /\ IdleBots
    /\ IdleReport
    /\ IdleCycle
    /\ IdleResolve

Next ==
    \/ CallFetch
    \/ BulkResolve
    \/ BulkReject
    \/ GapResolve
    \/ GapReject
    \/ FallbackResolve
    \/ FallbackReject

Spec == Init /\ [][Next]_vars

SpecPartition == InitPartition /\ [][Next]_vars

\* A run plan for determinism: the same range is fetched twice, against the
\* same provider contents.
InitRepeat ==
    /\ bulk \in BulkResponses(0..MaxEpoch)
    /\ epochsWithEntry \in SUBSET (0..MaxEpoch)
    /\ plan \in {<<<<s, n>>, <<s, n>>>> : s \in 0..MaxEpoch, n \in 0..(MaxEpoch + 1)}
    /\ IdleFetch
    /\ IdleBots
    /\ IdleReport
    /\ IdleCycle
    /\ IdleResolve

SpecRepeat == InitRepeat /\ [][Next]_vars

\* Epoch resolution alone: one reference point and schedule, and start dates
\* resolved against them in ascending order.
SlotHorizon == MaxSlot + ((5 * MaxSeconds) \div 2)

InitResolve ==
    /\ recentSlot \in 0..MaxSlot
    /\ blockTime \in 0..MaxSeconds
    /\ nowSeconds \in {1, MaxSeconds}
    /\ epochSchedule \in
         {[boundaries |-> B] :
            B \in {X \in SUBSET (1..SlotHorizon) : Cardinality(X) <= MaxBoundaries}}
    /\ resolved = <<>>
    /\ bulk = [ok |-> FALSE, data |-> <<>>]
    /\ epochsWithEntry = {}
    /\ plan = <<>>
    /\ IdleFetch
    /\ IdleBots
    /\ IdleReport
    /\ IdleCycle

NextResolve ==
    \E startSec \in 0..MaxSeconds :
        /\ Len(resolved) < MaxResolved
        /\ resolved # <<>> => startSec > resolved[Len(resolved)].startDate
        /\ ResolveStartEpoch(startSec)

SpecResolve == InitResolve /\ [][NextResolve]_vars

\* The report alone: totals, a price, expenses, a reimbursement percentage and
\* three dates, and the two report computations applied to them.
NoProviders ==
    /\ bulk = [ok |-> FALSE, data |-> <<>>]
    /\ epochsWithEntry = {}
    /\ plan = <<>>

Reimbursements == {0, 25, 50, 100}

InitReport ==
    /\ rewards \in [ totalVoteRewards       : {150 * k : k \in 0..MaxReward},
                     totalJitoRewards       : {2500 * k : k \in 0..MaxReward},
                     totalBlockRewards      : 0..MaxReward,
                     totalBlocksWithRewards : {0},
                     totalVoteCost          : 0..MaxCost ]
    /\ solanaPrice \in 1..MaxPrice
    /\ monthlyExpenses \in 0..MaxExpenses
    /\ voteCostReimbursement \in Reimbursements
    /\ startDate = 0
    /\ currentDate \in (startDate - 1)..(startDate + MaxElapsed)
    /\ endDate \in (startDate + 1)..(startDate + MaxCycle)
    /\ report = <<>>
    /\ botReport = <<>>
    /\ NoProviders
    /\ IdleFetch
    /\ IdleBots
    /\ IdleResolve
    /\ IdleCycle

NextReport ==
    \/ GenerateReport
    \/ BotReport

SpecReport == InitReport /\ [][NextReport]_vars

\* The billing cycle alone: every day of the calendar years and every billing
\* day the validation of run() lets through.
InitCycle ==
    /\ today \in {t \in [year : CalendarYears, month : 0..11, day : 1..31] :
                    t.day <= DaysInMonth(t.year, t.month)}
    /\ monthlyBillingDay \in 1..31
    /\ cycle = <<>>
    /\ NoProviders
    /\ IdleFetch
    /\ IdleBots
    /\ IdleResolve
    /\ IdleReport

NextCycle == BuildCycle

SpecCycle == InitCycle /\ [][NextCycle]_vars

\* The Logger alone: every way of constructing it, and a few messages at each
\* level.
LoggerOptions ==
    [telegramEnabled : BOOLEAN, botToken : {"", "token"},
     chatId : {"", "chat"}, prefix : {"", "[bot] "}]

InitLogger ==
    /\ loggerOptions \in LoggerOptions
    /\ telegram = HoldsMessenger(loggerOptions)
    /\ logPc = "idle"
    /\ pending = <<>>
    /\ console = <<>>
    /\ telegramSent = <<>>
    /\ deliveryFailures = 0
    /\ IdleRun
    /\ IdleSfdp
    /\ IdleLatency
    /\ NoProviders
    /\ IdleFetch
    /\ IdleResolve
    /\ IdleReport
    /\ IdleCycle

NextLogger ==
    \/ LoggerInfo
    \/ LoggerWarn
    \/ LoggerError
    \/ TelegramResolve
    \/ TelegramReject

SpecLogger == InitLogger /\ [][NextLogger]_vars

\* run() as main() and the schedule call it: a configuration, a logger, a
\* day, the chain at some epoch with two-day epochs, and the providers.
RunDay == [year |-> SetMin(CalendarYears), month |-> 2, day |-> 5]

SlotsPerEpoch == 5 * SecondsPerDay

ValidConfigs ==
    LET good(d, x, r) ==
          [voteAccountAddress |-> "Vote111", identityAddress |-> "Iden111",
           monthlyExpenses |-> x, monthlyBillingDay |-> d,
           voteCostReimbursement |-> r]
    IN  {good(d, "1", 0) : d \in {1, 3, 5, 31}}
          \cup {good(1, x, 100) : x \in {"0", "1"}}

InvalidConfigs ==
    LET good == [voteAccountAddress |-> "Vote111",
                 identityAddress |-> "Iden111", monthlyExpenses |-> "1",
                 monthlyBillingDay |-> 1, voteCostReimbursement |-> 0]
    IN  {[good EXCEPT !.voteAccountAddress = ""],
         [good EXCEPT !.identityAddress = ""],
         [good EXCEPT !.monthlyExpenses = ""],
         [good EXCEPT !.monthlyBillingDay = 0],
         [good EXCEPT !.monthlyBillingDay = 32],
         [good EXCEPT !.voteCostReimbursement = -1],
         [good EXCEPT !.voteCostReimbursement = 101]}

InitRun ==
    /\ config \in ValidConfigs \cup InvalidConfigs
    /\ monthlyExpenses = ParseFloat(config.monthlyExpenses)
    /\ voteCostReimbursement = config.voteCostReimbursement
    /\ monthlyBillingDay = config.monthlyBillingDay
    /\ today = RunDay
    /\ cycle = <<>>
    /\ loggerOptions \in {o \in LoggerOptions :
                            o.prefix = "" /\ o.botToken = "token"
                              /\ o.chatId = "chat"}
    /\ telegram = HoldsMessenger(loggerOptions)
    /\ logPc = "idle"
    /\ pending = <<>>
    /\ console = <<>>
    /\ telegramSent = <<>>
    /\ deliveryFailures = 0
    /\ chainEpoch \in (MaxEpoch - 1)..MaxEpoch
    /\ recentSlot = SlotsPerEpoch * chainEpoch
    /\ blockTime \in {0, EpochSeconds(RunDay)}
    /\ nowSeconds = EpochSeconds(RunDay)
    /\ epochSchedule = [boundaries |->
                          {SlotsPerEpoch * k : k \in 1..(MaxEpoch + 1)}]
    /\ resolved = <<>>
    /\ bulk \in {[ok |-> FALSE, data |-> <<>>]}
                  \cup {[ok |-> TRUE, data |-> Ascending(S)] :
                          S \in SUBSET (0..MaxEpoch)}
    /\ epochsWithEntry \in {{}, 0..MaxEpoch}
    /\ plan = <<>>
    /\ IdleFetch
    /\ rewards = ZeroTotals
    /\ solanaPrice = 1
    /\ startDate = 0
    /\ currentDate = 0
    /\ endDate = 0
    /\ report = <<>>
    /\ botReport = <<>>
    /\ runPc = "idle"
    /\ runNumber = 0
    /\ currentEpoch = 0
    /\ runLog = <<>>
    /\ exitCode = <<>>
    /\ calls = <<>>
    /\ IdleSfdp
    /\ IdleLatency

NextRun ==
    \/ StartRun
    \/ RunExit
    \/ ChainResolve
    \/ ChainReject
    \/ RunFetchRewards
    \/ BulkResolve
    \/ BulkReject
    \/ GapResolve
    \/ GapReject
    \/ FallbackResolve
    \/ FallbackReject
    \/ RunFetchReturned
    \/ RunFetchThrown
    \/ PriceResolve
    \/ PriceReject
    \/ RunReturn
    \/ TelegramResolve
    \/ TelegramReject

SpecRun == InitRun /\ [][NextRun]_vars

\* compareVersions alone: versions written from their numbers, Agave ones
\* with one to three components, bare or behind a "v", Firedancer ones with
\* the widths 1, 3 and 5, against a requirement carrying a minimum of each
\* kind.
AgaveNumbers ==
    UNION {[1..n -> {0, 2, 10}] : n \in ComponentCounts}

FiredancerWidths == <<1, 3, 5>>

NaturalWidths == <<1, 1, 1>>

FiredancerNumbers ==
    {<<a, b, c>> : a \in {0, 1}, b \in {5, 310}, c \in {7, 20106}}

VersionInputs ==
    [ current :
        [numbers : AgaveNumbers, widths : {NaturalWidths},
         prefix : {<<>>, <<"v">>}]
        \cup [numbers : FiredancerNumbers, widths : {FiredancerWidths},
              prefix : {<<>>, <<"v">>}],
      agave : AgaveNumbers,
      firedancer : FiredancerNumbers ]

InitVersions ==
    /\ components \in VersionInputs
    /\ currentVersion = components.current.prefix
                          \o Written(components.current.numbers,
                                     components.current.widths)
    /\ requiredVersions =
         <<[ epoch |-> 0,
             agave_min_version |-> Written(components.agave, NaturalWidths),
             firedancer_min_version |->
                 Written(components.firedancer, FiredancerWidths) ]>>
    /\ compared = <<>>
    /\ network = ""
    /\ checkPc = "idle"
    /\ networkEpoch = 0
    /\ verdict = <<>>
    /\ onlyLogIssues = FALSE
    /\ providedVersion = [n \in Networks |-> <<>>]
    /\ IdleLogger
    /\ IdleRun
    /\ IdleLatency
    /\ NoProviders
    /\ IdleFetch
    /\ IdleResolve
    /\ IdleReport
    /\ IdleCycle

NextVersions == Compare

SpecVersions == InitVersions /\ [][NextVersions]_vars

\* run() of the compliance bot: both networks in turn, with or without a
\* version given at construction, answers arriving as they may.
InitSfdp ==
    /\ onlyLogIssues \in BOOLEAN
    /\ providedVersion \in {[n \in Networks |-> <<>>],
                            [n \in Networks |->
                               IF n = "mainnet" THEN YourVersion ELSE <<>>]}
    /\ network = ""
    /\ checkPc = "idle"
    /\ requiredVersions = <<>>
    /\ currentVersion = <<>>
    /\ networkEpoch = 0
    /\ verdict = <<>>
    /\ components = <<>>
    /\ compared = <<>>
    /\ loggerOptions = [telegramEnabled |-> TRUE, botToken |-> "token",
                        chatId |-> "chat",
                        prefix |-> "[ValidatorVersionCheck] "]
    /\ telegram = HoldsMessenger(loggerOptions)
    /\ logPc = "idle"
    /\ pending = <<>>
    /\ console = <<>>
    /\ telegramSent = <<>>
    /\ deliveryFailures = 0
    /\ IdleRun
    /\ IdleLatency
    /\ NoProviders
    /\ IdleFetch
    /\ IdleResolve
    /\ IdleReport
    /\ IdleCycle

NextSfdp ==
    \/ CheckNetwork
    \/ RequiredResolve
    \/ NodesResolve
    \/ EpochResolve
    \/ CheckReject
    \/ CheckReturn
    \/ TelegramResolve
    \/ TelegramReject

SpecSfdp == InitSfdp /\ [][NextSfdp]_vars

\* The benchmark: main() and the slot changes of the two connections, in any
\* order and at any times up to MaxClock.
InitLatency ==
    /\ mainPc = "idle"
    /\ clock = 0
    /\ listening = [m \in Measurements |-> FALSE]
    /\ lastTimestamp = [m \in Measurements |-> 0]
    /\ count = [m \in Measurements |-> 0]
    /\ slotTimes = [m \in Measurements |-> <<>>]
    /\ removals = [m \in Measurements |-> 0]
    /\ resolvedAvg = [m \in Measurements |-> <<>>]
    /\ printed = <<>>
    /\ differential = <<>>
    /\ IdleLogger
    /\ IdleRun
    /\ IdleSfdp
    /\ NoProviders
    /\ IdleFetch
    /\ IdleResolve
    /\ IdleReport
    /\ IdleCycle

NextLatency ==
    \/ StartMeasuring
    \/ LocalSlotChange
    \/ RpcSlotChange
    \/ ListenerRemoved
    \/ PrintDifferential

SpecLatency == InitLatency /\ [][NextLatency]_vars

\* ------------------------------------------------------------- claims

\* How many of the records in a carry epoch e.
Count(a, e) == Cardinality({i \in 1..Len(a) : a[i].epoch = e})

RequestedEpochs == {requests[i].epoch : i \in 1..Len(requests)}

GapFailures == {i \in 1..Len(failed) : failed[i].path = "gap"}

\* The per-epoch loop alone, run over [e, n) from the totals t.
RECURSIVE PerEpochLoopTotals(_, _, _)
PerEpochLoopTotals(e, n, t) ==
    IF e >= n THEN t
    ELSE PerEpochLoopTotals(e + 1, n, TotalsAfterEpoch(t, e))

\* C1: when the bulk call fails, the totals fetchRewards returns are those of
\* the per-epoch loop alone over [startEpoch, endEpoch): every epoch of the
\* range that has an entry is added exactly once and no other epoch is added.
C1_FallbackCompleteness ==
    (~bulk.ok /\ pc = "returned") =>
        /\ totals = PerEpochLoopTotals(startEpoch, endEpoch, ZeroTotals)
        /\ \A e \in startEpoch..(endEpoch - 1) :
             Count(added, e) = (IF e \in epochsWithEntry THEN 1 ELSE 0)
        /\ \A i \in 1..Len(added) :
             InRange(added[i].epoch, startEpoch, endEpoch)

C1_Witness ==
    /\ ~bulk.ok
    /\ pc = "returned"
    /\ Len(added) >= 2
    /\ \E e \in startEpoch..(endEpoch - 1) : e \notin epochsWithEntry

\* C2: when a gap-fill request fails, the epoch is recorded as a warning and
\* skipped, the gap-fill loop goes on (no switch to the fallback loop), no
\* epoch is added twice, and fetchRewards returns: every epoch of
\* [startEpoch, earliestEpochInAPI) has then been requested.
C2_GapFailureSkipped ==
    (GapFailures # {} /\ bulk.data # <<>> /\ startEpoch < endEpoch) =>
        /\ pc # "thrown"
        /\ \A i \in 1..Len(requests) : requests[i].path = "gap"
        /\ Len(warnings) = Cardinality(GapFailures)
        /\ \A e \in RequestedEpochs : Count(added, e) <= 1
        /\ pc = "returned" =>
             \A e \in startEpoch..(earliestEpochInAPI - 1) :
                e \in RequestedEpochs

\* C3: each epoch contributes at most once to the totals fetchRewards
\* returns, also when the fallback branch ran after a failure partway.
C3_AtMostOncePerEpoch ==
    (pc = "returned" /\ bulk.data # <<>> /\ startEpoch < endEpoch) =>
        \A i, j \in 1..Len(added) :
            i # j => added[i].epoch # added[j].epoch

\* C4: the totals fetchRewards returns hold contributions only of epochs e
\* with startEpoch <= e < endEpoch.
C4_OnlyEpochsOfRange ==
    (pc = "returned" /\ failed = <<>> /\ startEpoch < endEpoch) =>
        \A i \in 1..Len(added) : InRange(added[i].epoch, startEpoch, endEpoch)

\* C5: when the bulk call succeeds (with at least one record), the per-epoch
\* requests issued are exactly one for each epoch of
\* [startEpoch, earliestEpochInAPI), in ascending order, and every entry
\* aggregated from them is the one of the validator's vote account.
C5_GapFillRequests ==
    (bulk.ok /\ bulk.data # <<>> /\ startEpoch < endEpoch /\ pc = "returned") =>
        /\ Len(requests) =
             (IF startEpoch < earliestEpochInAPI
              THEN earliestEpochInAPI - startEpoch ELSE 0)
        /\ \A i \in 1..Len(requests) : requests[i].epoch = startEpoch + i - 1
        /\ \A i \in 1..Len(added) :
             added[i].path # "bulk" => added[i].pubkey = VoteAccount

\* C6: when the bulk request fails, fetchRewards does not abort, one request
\* is issued for every epoch of [startEpoch, endEpoch), and the failure is
\* surfaced as a single warning.
C6_BulkFailureSurfaced ==
    (~bulk.ok /\ startEpoch < endEpoch /\ pc \in {"returned", "thrown"}) =>
        /\ pc = "returned"
        /\ Len(requests) =
             (IF startEpoch < endEpoch THEN endEpoch - startEpoch ELSE 0)
        /\ \A i \in 1..Len(requests) : requests[i].epoch = startEpoch + i - 1
        /\ Len(warnings) = 1

SumTotals(a, b) ==
    [ totalVoteRewards       |-> a.totalVoteRewards + b.totalVoteRewards,
      totalJitoRewards       |-> a.totalJitoRewards + b.totalJitoRewards,
      totalBlockRewards      |-> a.totalBlockRewards + b.totalBlockRewards,
      totalBlocksWithRewards |-> a.totalBlocksWithRewards
                                   + b.totalBlocksWithRewards,
      totalVoteCost          |-> a.totalVoteCost + b.totalVoteCost ]

\* The three calls of a partition have returned and no request of any of
\* them failed: history holds (s, n) and (s, mid), the current call is (mid, n).
PartitionDone ==
    /\ plan = <<>>
    /\ Len(history) = 2
    /\ pc = "returned"
    /\ failed = <<>>
    /\ \A i \in 1..2 : history[i].result = "returned" /\ history[i].failures = 0
    /\ bulk.ok /\ bulk.data # <<>>
    /\ history[2].startEpoch < history[2].endEpoch
    /\ startEpoch < endEpoch

\* C9: the totals of fetchRewards(s, n) are the element-wise sum of the
\* totals of fetchRewards(s, mid) and fetchRewards(mid, n), for s <= mid <= n
\* and the same providers.
C9_Additivity ==
    PartitionDone => history[1].totals = SumTotals(history[2].totals, totals)

\* The call of scenario A has returned and none of its requests failed.
ScenarioADone ==
    /\ startEpoch = ScenarioStart
    /\ endEpoch = ScenarioEnd
    /\ bulk.ok
    /\ {bulk.data[i].epoch : i \in 1..Len(bulk.data)}
         = ScenarioEarliest..(ScenarioEnd - 1)
    /\ (ScenarioStart..(ScenarioEarliest - 1)) \subseteq epochsWithEntry
    /\ pc = "returned"
    /\ failed = <<>>

\* C10: in scenario A each of the epochs 100..109 contributes exactly once to
\* the totals, so that ten epochs are covered.
C10_ScenarioA ==
    ScenarioADone =>
        /\ \A e \in ScenarioStart..(ScenarioEnd - 1) : Count(added, e) = 1
        /\ Len(added) = ScenarioEnd - ScenarioStart

C10_Witness ==
    /\ ScenarioADone
    /\ \E i \in 1..Len(added) : added[i].path = "gap"
    /\ \E i \in 1..Len(added) : added[i].path = "bulk"

\* C7: the epoch resolution never yields a negative start epoch: the slot
\* handed to the epoch schedule is never negative, and neither is the epoch.
C7_ZeroFloor ==
    \A i \in 1..Len(resolved) :
        resolved[i].startSlot >= 0 /\ resolved[i].startEpoch >= 0

\* A start date so far before the reference point that the estimate is negative.
C7_Witness ==
    \E i \in 1..Len(resolved) :
        /\ EstimatedSlot(recentSlot, resolved[i].startDate
                           - RecentTimestamp(blockTime, nowSeconds)) < 0
        /\ resolved[i].startSlot = 0

\* C8: against the same reference point and schedule, a later start date
\* never resolves to an earlier epoch.
C8_Monotone ==
    \A i, j \in 1..Len(resolved) :
        resolved[i].startDate < resolved[j].startDate
            => resolved[i].startEpoch <= resolved[j].startEpoch

\* Two dates, the earlier one clamped to slot 0, resolved to different epochs.
C8_Witness ==
    /\ Len(resolved) = 2
    /\ resolved[1].startDate < resolved[2].startDate
    /\ EstimatedSlot(recentSlot, resolved[1].startDate
                       - RecentTimestamp(blockTime, nowSeconds)) < 0
    /\ resolved[1].startEpoch < resolved[2].startEpoch

\* The provider's record behind an entry of added.
RecordOf(a) ==
    IF a.pubkey = VoteAccount THEN ValidatorRecord(a.epoch)
    ELSE OtherRecord(a.epoch)

\* What one record contributes to each total: the vote reward in hundredths,
\* the MEV reward in ten-thousandths.
Contribution(r) ==
    [ vote  |-> r.total_inflation_reward * r.commission,
      jito  |-> r.mev_earned * r.mev_commission,
      block |-> r.rewards,
      cost  |-> r.vote_cost ]

\* The sum of the contributions of the records a.
RECURSIVE SumOfContributions(_)
SumOfContributions(a) ==
    IF a = <<>> THEN [vote |-> 0, jito |-> 0, block |-> 0, cost |-> 0]
    ELSE LET c == Contribution(RecordOf(Head(a)))
             rest == SumOfContributions(Tail(a))
         IN  [ vote  |-> c.vote + rest.vote,
               jito  |-> c.jito + rest.jito,
               block |-> c.block + rest.block,
               cost  |-> c.cost + rest.cost ]

\* C11: every record added to the totals, on the bulk, the gap-fill and the
\* fallback path alike, contributes its inflation reward times its own
\* commission (in hundredths), its MEV times its own MEV commission (in
\* ten-thousandths), its block reward and its vote cost unscaled; each total
\* is the sum of these contributions, one per added record.
C11_PerRecordContributions ==
    /\ totals.totalVoteRewards = SumOfContributions(added).vote
    /\ totals.totalJitoRewards = SumOfContributions(added).jito
    /\ totals.totalBlockRewards = SumOfContributions(added).block
    /\ totals.totalVoteCost = SumOfContributions(added).cost

C11_Witness ==
    /\ pc = "returned"
    /\ \E i, j, k \in 1..Len(added) :
         /\ added[i].path = "bulk"
         /\ added[j].path = "gap"
         /\ added[k].path = "fallback"
         /\ RecordOf(added[i]).commission # RecordOf(added[k]).commission

\* C12: when a gap-fill or fallback request is answered and the result set
\* holds no entry for the validator, nothing is thrown, the totals are left
\* as they were, and the loop goes on to the next epoch (or, after its last
\* epoch, fetchRewards returns).
C12_MissingEntrySkipped ==
    [][(/\ pc \in {"awaitGap", "awaitFallback"}
        /\ epoch \notin epochsWithEntry
        /\ failed' = failed)
       => (/\ totals' = totals
           /\ added' = added
           /\ warnings' = warnings
           /\ \/ pc' = "returned"
              \/ /\ pc' = pc
                 /\ epoch' = epoch + 1
                 /\ requests' = Append(requests,
                                       [epoch |-> epoch + 1,
                                        path |-> requests[Len(requests)].path]))
      ]_vars

C12_Witness ==
    /\ pc \in {"awaitGap", "awaitFallback"}
    /\ Len(requests) >= 2
    /\ requests[Len(requests) - 1].epoch \notin epochsWithEntry
    /\ requests[Len(requests) - 1].path = requests[Len(requests)].path
    /\ requests[Len(requests)].epoch = requests[Len(requests) - 1].epoch + 1
    /\ failed = <<>>
    /\ added # <<>>

\* The second of two calls has returned after receiving the same responses
\* as the first: the same requests were rejected.
SameResponsesTwice ==
    /\ Len(history) = 1
    /\ pc = "returned"
    /\ history[1].startEpoch = startEpoch
    /\ history[1].endEpoch = endEpoch
    /\ history[1].failed = failed

\* C13: two calls of fetchRewards with the same range, answered alike by the
\* providers, return the same totals: the second call starts from zero and
\* nothing the first call accumulated is carried into it.
C13_Deterministic ==
    SameResponsesTwice =>
        /\ history[1].result = "returned"
        /\ history[1].totals = totals

C13_Witness ==
    /\ SameResponsesTwice
    /\ totals.totalVoteRewards > 0
    /\ failed # <<>>
    /\ \E i, j \in 1..Len(added) : added[i].path # added[j].path

\* Every figure a report prints is a finite number.
LinesFinite(r) == \A f \in DOMAIN r.lines : IsFinite(r.lines[f])

\* a and b are the same number.
Same(a, b) == Geq(a, b) /\ Geq(b, a)

\* C14: a report made at the very start of the cycle (elapsedMs = 0) has a
\* projection of 0, and every figure it prints is finite: no NaN, no infinity.
C14_ZeroElapsedProjection ==
    /\ (report # <<>> /\ report[1].elapsedMs = 0) =>
          /\ IsZero(report[1].projectedMonthlyUSD)
          /\ LinesFinite(report[1])
    /\ (botReport # <<>> /\ botReport[1].elapsedMs = 0) =>
          /\ IsZero(botReport[1].projectedRevenueUSD)
          /\ LinesFinite(botReport[1])

\* C15: when the accrued expense is 0 the current coverage is 0, and when the
\* monthly expense is 0 the projected coverage is 0, instead of the result of
\* a division by zero.
C15_ZeroExpenseCoverage ==
    /\ report # <<>> =>
          /\ IsZero(report[1].accruedExpensesUSD)
                => IsZero(report[1].currentPercentCovered)
          /\ monthlyExpenses = 0 => IsZero(report[1].percentCovered)
    /\ botReport # <<>> =>
          /\ IsZero(botReport[1].accruedTotalExpensesUSD)
                => IsZero(botReport[1].percentCovered)
          /\ IsZero(botReport[1].monthlyTotalExpensesUSD)
                => IsZero(botReport[1].projectedPercentCovered)

\* C16: the vote cost charged is totalVoteCost * (100 - reimbursement) / 100:
\* between 0 and totalVoteCost for every percentage in 0..100, totalVoteCost
\* at 0 percent, and 0 at 100 percent, where the net gain is the revenue.
C16_ReimbursedVoteCost ==
    report # <<>> =>
        LET cost == Number(rewards.totalVoteCost)
            charged == report[1].reimbursedVoteCost
        IN  /\ Same(Mul(charged, Number(100)),
                    Number(rewards.totalVoteCost * (100 - voteCostReimbursement)))
            /\ Geq(charged, Number(0))
            /\ Geq(cost, charged)
            /\ voteCostReimbursement = 0 => Same(charged, cost)
            /\ voteCostReimbursement = 100 =>
                  /\ IsZero(charged)
                  /\ Same(report[1].netGainSOL, report[1].totalRevenueSOL)

C16_Witness ==
    /\ report # <<>>
    /\ voteCostReimbursement = 100
    /\ rewards.totalVoteCost > 0
    /\ Gt(report[1].totalRevenueSOL, Number(0))

\* The statement of C17 read on generateReport: the accrued expense includes
\* the fiat value of the vote cost charged.
C17_AccruedIncludesVoteCost ==
    (report # <<>> /\ report[1].elapsedMs > 0 /\ monthlyExpenses > 0) =>
        LET voteCostFiat == Mul(report[1].reimbursedVoteCost, Number(solanaPrice))
            accruedBase == Div(Mul(Number(monthlyExpenses),
                                   Number(report[1].elapsedMs)),
                               Number(report[1].totalCycleMs))
            accruedTotal == Add(accruedBase, voteCostFiat)
        IN  /\ Same(report[1].accruedExpensesUSD, accruedTotal)
            /\ ~IsZero(accruedTotal) =>
                  Same(report[1].currentPercentCovered,
                       Mul(Div(report[1].currentNetGainUSD, accruedTotal),
                           Number(100)))

\* C17, amended: generateReport accrues the elapsed share of the monthly base
\* expense alone, and the current coverage is the net gain in dollars over
\* it, times 100; the vote cost charged is deducted from the revenue and is
\* not added to the expense.  Only the single-class run() adds its fiat value
\* to the accrued expense.  Both divide without a guard.
C17_AccruedExpense ==
    /\ report # <<>> =>
          LET accruedBase == Div(Mul(Number(monthlyExpenses),
                                       Number(report[1].elapsedMs)),
                                 Number(report[1].totalCycleMs))
          IN  /\ report[1].accruedExpensesUSD = accruedBase
              /\ report[1].currentNetGainUSD
                   = Mul(report[1].netGainSOL, Number(solanaPrice))
              /\ report[1].currentPercentCovered
                   = Mul(Div(report[1].currentNetGainUSD, accruedBase),
                         Number(100))
              /\ report[1].currentProfitUSD
                   = Sub(report[1].currentNetGainUSD, accruedBase)
    /\ botReport # <<>> =>
          LET voteCostFiat == Mul(botReport[1].reimbursedVoteCost,
                                  Number(solanaPrice))
              accruedBase == Div(Mul(Number(monthlyExpenses),
                                     Number(botReport[1].elapsedMs)),
                                 Number(botReport[1].totalCycleMs))
          IN  /\ botReport[1].accruedTotalExpensesUSD
                   = Add(accruedBase, voteCostFiat)
              /\ botReport[1].percentCovered
                   = Mul(Div(botReport[1].revenueUSD,
                             Add(accruedBase, voteCostFiat)), Number(100))

C17_Witness ==
    /\ report # <<>>
    /\ botReport # <<>>
    /\ report[1].elapsedMs > 0
    /\ monthlyExpenses > 0
    /\ Gt(report[1].reimbursedVoteCost, Number(0))
    /\ Gt(report[1].accruedExpensesUSD, Number(0))
    /\ Gt(botReport[1].accruedTotalExpensesUSD, report[1].accruedExpensesUSD)

\* The statement of C18 read on generateReport: the projection is set against
\* the monthly expense plus the fiat value of the vote cost charged.
C18_ProjectionIncludesVoteCost ==
    (report # <<>> /\ report[1].elapsedMs > 0 /\ monthlyExpenses > 0) =>
        LET monthlyTotal == Add(Number(monthlyExpenses),
                                Mul(report[1].reimbursedVoteCost,
                                    Number(solanaPrice)))
        IN  /\ Same(report[1].projectedProfitUSD,
                    Sub(report[1].projectedMonthlyUSD, monthlyTotal))
            /\ ~IsZero(monthlyTotal) =>
                  Same(report[1].percentCovered,
                       Mul(Div(report[1].projectedMonthlyUSD, monthlyTotal),
                           Number(100)))

\* C18, amended: generateReport sets the projection against the monthly base
\* expense alone: projected profit = projection - monthlyExpenses, projected
\* coverage = projection / monthlyExpenses * 100.  Only the single-class
\* run() sets it against the base expense plus the vote cost in dollars.
C18_ProjectedAgainstExpenses ==
    /\ report # <<>> =>
          /\ report[1].projectedProfitUSD
               = Sub(report[1].projectedMonthlyUSD, Number(monthlyExpenses))
          /\ report[1].percentCovered
               = Mul(Div(report[1].projectedMonthlyUSD, Number(monthlyExpenses)),
                     Number(100))
    /\ botReport # <<>> =>
          LET monthlyTotal == Add(Number(monthlyExpenses),
                                  Mul(botReport[1].reimbursedVoteCost,
                                      Number(solanaPrice)))
          IN  /\ botReport[1].monthlyTotalExpensesUSD = monthlyTotal
              /\ botReport[1].projectedProfitUSD
                   = Sub(botReport[1].projectedRevenueUSD, monthlyTotal)
              /\ botReport[1].projectedPercentCovered
                   = Mul(Div(botReport[1].projectedRevenueUSD, monthlyTotal),
                         Number(100))

C18_Witness ==
    /\ report # <<>>
    /\ botReport # <<>>
    /\ report[1].elapsedMs > 0
    /\ monthlyExpenses > 0
    /\ Gt(report[1].reimbursedVoteCost, Number(0))
    /\ Gt(report[1].projectedMonthlyUSD, Number(0))
    /\ Gt(report[1].percentCovered, botReport[1].projectedPercentCovered)

\* C19: the cycle run() builds has start <= now and end > start, for every
\* day of the calendar and every billing day 1..31: the most recent billing
\* date is never later than today.
C19_CycleInvariant ==
    cycle # <<>> =>
        /\ GetTime(cycle[1].start) <= GetTime(cycle[1].now)
        /\ GetTime(cycle[1].end) > GetTime(cycle[1].start)

\* The half of C19 that the code does keep: the cycle ends after it starts.
CycleEndsAfterStart ==
    cycle # <<>> => GetTime(cycle[1].end) > GetTime(cycle[1].start)

\* C20: generateReport clamps nothing: the elapsed percentage is the raw
\* ratio times 100, above 100 once currentDate is after endDate; the
\* projection is the net gain over the raw elapsed time, times the cycle; and
\* the report prints the elapsed and coverage percentages as computed.
C20_NothingClamped ==
    report # <<>> =>
        LET r == report[1]
        IN  /\ r.elapsedPct
                 = Mul(Div(Number(r.elapsedMs), Number(r.totalCycleMs)),
                       Number(100))
            /\ r.elapsedMs > r.totalCycleMs =>
                  /\ Gt(r.elapsedPct, Number(100))
                  /\ Gt(r.lines.elapsed, Number(100))
            /\ r.elapsedMs # 0 =>
                  Same(Mul(r.projectedMonthlySOL, Number(r.elapsedMs)),
                       Mul(r.netGainSOL, Number(r.totalCycleMs)))
            /\ r.lines.elapsed = ToFixed(r.elapsedPct, 2)
            /\ r.lines.currentCoverage = ToFixed(r.currentPercentCovered, 2)
            /\ r.lines.projectedPercent = ToFixed(r.percentCovered, 1)
            /\ (IsFinite(r.accruedExpensesUSD) /\ ~IsZero(r.accruedExpensesUSD)) =>
                  Same(Mul(r.currentPercentCovered, r.accruedExpensesUSD),
                       Mul(r.currentNetGainUSD, Number(100)))

C20_Witness ==
    /\ report # <<>>
    /\ currentDate > endDate
    /\ Gt(report[1].lines.elapsed, Number(100))
    /\ Gt(Number(0), report[1].lines.currentCoverage)

\* C21: the tracking label compares the projection with the expense total,
\* not a percentage: "On track" exactly when projection >= expenses, "Behind
\* pace" otherwise; within "On track" the outcome is "make profit" exactly
\* when projection > expenses and "break even" exactly when they are equal;
\* and the projected coverage in the label is over that same expense total.
C21_TrackingLabel ==
    /\ report # <<>> =>
          LET r == report[1]
              expenses == Number(monthlyExpenses)
          IN  /\ r.trackingStatus \in {"On track", "Behind pace"}
              /\ r.trackingStatus = "On track"
                    <=> Geq(r.projectedMonthlyUSD, expenses)
              /\ r.trackingStatus = "On track" =>
                    /\ r.onTrackOutcome = "make profit"
                          <=> Gt(r.projectedMonthlyUSD, expenses)
                    /\ r.onTrackOutcome = "break even"
                          <=> Same(r.projectedMonthlyUSD, expenses)
              /\ r.percentCovered
                   = Mul(Div(r.projectedMonthlyUSD, expenses), Number(100))
    /\ botReport # <<>> =>
          LET r == botReport[1]
              expenses == r.monthlyTotalExpensesUSD
          IN  /\ r.trackingStatus \in {"On track", "Behind pace"}
              /\ r.trackingStatus = "On track"
                    <=> Geq(r.projectedRevenueUSD, expenses)
              /\ r.trackingStatus = "On track" =>
                    /\ r.onTrackOutcome = "make profit"
                          <=> Gt(r.projectedRevenueUSD, expenses)
                    /\ r.onTrackOutcome = "break even"
                          <=> Same(r.projectedRevenueUSD, expenses)
              /\ r.projectedPercentCovered
                   = Mul(Div(r.projectedRevenueUSD, expenses), Number(100))

C21_Witness ==
    /\ report # <<>>
    /\ monthlyExpenses > 0
    /\ report[1].elapsedMs > 0
    /\ report[1].trackingStatus = "On track"
    /\ report[1].onTrackOutcome = "break even"
    /\ Same(report[1].percentCovered, Number(100))

\* C26: fetchRewards issues no more per-epoch requests than the requested
\* range has epochs, whatever the bulk response: an empty list and an
\* earliest epoch far above endEpoch included.
C26_RequestsBounded ==
    (startEpoch < endEpoch /\ failed = <<>>) =>
        Len(requests) <= endEpoch - startEpoch

\* The Logger was constructed with Telegram enabled, a bot token and a chat id.
TelegramConfigured ==
    /\ loggerOptions.telegramEnabled
    /\ loggerOptions.botToken # ""
    /\ loggerOptions.chatId # ""

\* How many console lines say that a log could not be sent to Telegram.
LoggedDeliveryFailures ==
    Cardinality({i \in 1..Len(console) :
                   console[i] = RawError("Failed to send log to Telegram")})

\* C24: a rejected Telegram request never leaves info, warn or error as an
\* exception: it is logged to the console and the call returns.  The message
\* is on the console before Telegram is asked, and Telegram is asked only by
\* a Logger constructed with Telegram enabled, a bot token and a chat id.
C24_TelegramFailureContained ==
    /\ logPc \in {"idle", "sending"}
    /\ LoggedDeliveryFailures = deliveryFailures
    /\ logPc = "sending" =>
         /\ console # <<>>
         /\ console[Len(console)].text = pending[1]
    /\ (logPc = "sending" \/ telegramSent # <<>> \/ deliveryFailures > 0) =>
         TelegramConfigured

C24_Witness ==
    /\ logPc = "idle"
    /\ deliveryFailures = 1
    /\ Len(console) = 4
    /\ console[1].stream = "error"
    /\ console[1].text.level = "ERROR"
    /\ telegramSent = <<console[4].text>>

\* The names of the requests and calls c holds, and those of them rejected.
NamesOf(c) == {c[i].name : i \in 1..Len(c)}

RejectedChainCalls(c) ==
    {i \in 1..Len(c) : c[i].name \in ChainCallNames /\ c[i].status = "rejected"}

\* The reports the run numbered n has logged.
ReportsOf(n) ==
    {i \in 1..Len(console) :
       /\ console[i].text.message.kind = "report"
       /\ console[i].text.message.run = n}

\* C22: when a request of run() to the chain is rejected, run() is rejected
\* with it: the request was made once and is the last thing the run did,
\* fetchRewards is not called and the run logs no report.
C22_ChainFailurePropagates ==
    /\ \A i \in 1..Len(calls) : \A j \in 1..Len(calls) :
         (calls[i].name = calls[j].name /\ calls[i].name \in ChainCallNames)
           => i = j
    /\ RejectedChainCalls(calls) # {} =>
         /\ runPc = "rejected"
         /\ RejectedChainCalls(calls) = {Len(calls)}
         /\ "fetchRewards" \notin NamesOf(calls)
         /\ ReportsOf(runNumber) = {}
         /\ runLog # <<>>
         /\ runLog[Len(runLog)].number = runNumber
         /\ runLog[Len(runLog)].result = "rejected"
         /\ runLog[Len(runLog)].at = calls[Len(calls)].name

C22_Witness ==
    /\ runPc = "rejected"
    /\ runNumber = 2
    /\ Len(calls) = 2
    /\ calls[2] = [name |-> "getEpochSchedule", status |-> "rejected"]
    /\ ReportsOf(1) # {}

\* What the configuration must satisfy for run() to go on, as the
\* specification lists it.
WithinBounds(c) ==
    /\ c.voteAccountAddress # ""
    /\ c.identityAddress # ""
    /\ c.monthlyExpenses # ""
    /\ c.monthlyBillingDay \in 1..31
    /\ c.voteCostReimbursement \in 0..100

\* C23: with a configuration outside the bounds run() ends in process.exit
\* with a non-zero code, having made no request to the chain or to a provider
\* and logged no report; with one inside them run() never takes that way.
C23_ValidationAborts ==
    /\ exitCode # <<>> => exitCode[1] # 0
    /\ (runNumber > 0 /\ ~WithinBounds(config)) =>
         /\ runPc \in {"exiting", "exited"}
         /\ runPc = "exited" <=> exitCode # <<>>
         /\ calls = <<>>
         /\ pc = "idle"
         /\ requests = <<>>
         /\ report = <<>>
         /\ ReportsOf(runNumber) = {}
    /\ WithinBounds(config) =>
         /\ runPc \notin {"exiting", "exited"}
         /\ exitCode = <<>>

C23_Witness ==
    /\ runPc = "exited"
    /\ exitCode = <<1>>
    /\ config.voteCostReimbursement > 100
    /\ deliveryFailures = 1

\* The totals that start at zero and receive the records a, and nothing
\* else (only the bulk loop counts the blocks with rewards).
TotalsOfRecords(a) ==
    [ totalVoteRewards       |-> SumOfContributions(a).vote,
      totalJitoRewards       |-> SumOfContributions(a).jito,
      totalBlockRewards      |-> SumOfContributions(a).block,
      totalBlocksWithRewards |->
          Cardinality({i \in 1..Len(a) :
                         a[i].path = "bulk" /\ RecordOf(a[i]).rewards > 0}),
      totalVoteCost          |-> SumOfContributions(a).cost ]

\* Two runs fetched the same range and had the same requests rejected.
SameFetch(a, b) ==
    /\ a.range = b.range
    /\ a.failed = b.failed

\* C25: what a run hands to its report are the totals of the records its own
\* fetch added, counted from zero, whatever the runs before it fetched or
\* failed to fetch; runs that fetch alike report alike.
C25_RunsIndependent ==
    /\ \A i \in 1..Len(runLog) :
         runLog[i].result = "returned" =>
           runLog[i].rewards = TotalsOfRecords(runLog[i].added)
    /\ \A i \in 1..Len(runLog) : \A j \in 1..Len(runLog) :
         (/\ runLog[i].result = "returned"
          /\ runLog[j].result = "returned"
          /\ SameFetch(runLog[i], runLog[j])) =>
             runLog[i].rewards = runLog[j].rewards
    /\ \A i \in 1..Len(console) :
         console[i].text.message.kind = "report" =>
           \A j \in 1..Len(runLog) :
             (runLog[j].number = console[i].text.message.run
                /\ runLog[j].result = "returned") =>
               console[i].text.message.rewards = runLog[j].rewards

C25_Witness ==
    /\ Len(runLog) = 2
    /\ runLog[1].result = "returned"
    /\ runLog[2].result = "returned"
    /\ runLog[1].failed # <<>>
    /\ runLog[2].failed = <<>>
    /\ runLog[1].rewards.totalVoteRewards > 0
    /\ runLog[2].rewards.totalVoteRewards > runLog[1].rewards.totalVoteRewards

\* C27: the records a run's fetch adds are of epochs from startEpoch up to
\* currentEpoch - 2: neither currentEpoch - 1, the bound handed over, nor any
\* later epoch contributes.
C27_OnlyCompletedEpochs ==
    runPc \in {"fetchRewards", "getPrice", "logReport"} =>
        /\ endEpoch = currentEpoch - 1
        /\ \A i \in 1..Len(added) :
             /\ added[i].epoch >= startEpoch
             /\ added[i].epoch <= currentEpoch - 2

\* The part of C27 the code keeps: the bound handed over is currentEpoch - 1,
\* and no record of the bulk response passes the filter from there on.
BulkFilterExclusive ==
    runPc \in {"fetchRewards", "getPrice", "logReport"} =>
        /\ endEpoch = currentEpoch - 1
        /\ \A i \in 1..Len(added) :
             added[i].path = "bulk" =>
               /\ added[i].epoch >= startEpoch
               /\ added[i].epoch <= currentEpoch - 2

\* a >= b, component by component from the first, a missing component
\* counting as 0.
RECURSIVE LexAtLeast(_, _)
LexAtLeast(a, b) ==
    IF a = <<>> /\ b = <<>> THEN TRUE
    ELSE LET x == IF a = <<>> THEN 0 ELSE Head(a)
             y == IF b = <<>> THEN 0 ELSE Head(b)
         IN  IF x > y THEN TRUE
             ELSE IF x < y THEN FALSE
             ELSE LexAtLeast(IF a = <<>> THEN a ELSE Tail(a),
                             IF b = <<>> THEN b ELSE Tail(b))

\* The version compared is written as one digit, three digits and five
\* digits, and nothing else.
FiredancerShaped ==
    /\ components.current.prefix = <<>>
    /\ components.current.widths = FiredancerWidths

\* The numbers of the minimum that applies to the version compared.
ApplicableMinimum ==
    IF FiredancerShaped THEN components.firedancer ELSE components.agave

\* C28: compareVersions returns true exactly when the numbers of the current
\* version are at least those of the applicable minimum, compared component
\* by component with missing components as 0; the minimum is the Firedancer
\* one exactly when the current version has the Firedancer shape.
C28_CompareVersions ==
    compared # <<>> =>
        compared[1] = LexAtLeast(components.current.numbers, ApplicableMinimum)

C28_Witness ==
    /\ compared = <<TRUE>>
    /\ FiredancerShaped
    /\ components.current.numbers = components.firedancer
    /\ ~LexAtLeast(components.current.numbers, components.agave)

\* Other cases of the comparison that are reached: an Agave version short of a component
\* that equals its minimum, and one that a comparison of the digits as text
\* would rank the other way.
AgaveNumericCase ==
    /\ compared = <<FALSE>>
    /\ ~FiredancerShaped
    /\ components.current.numbers = <<2, 2>>
    /\ components.agave = <<2, 10, 0>>

\* The entries of the requirements received.
Entries == {requiredVersions[i] : i \in DOMAIN requiredVersions}

\* The version check the console shows for the network in hand, if any.
LoggedChecks ==
    {i \in 1..Len(console) :
       /\ console[i].text.message.kind = "version check"
       /\ console[i].text.message.network = network}

SilentCheck ==
    /\ verdict # <<>>
    /\ onlyLogIssues
    /\ ~verdict[1].reported
    /\ verdict[1].nextRequirement # <<>>
    /\ checkPc = "returned"

\* Between callbacks: a measurement is resolved exactly when it has had its
\* SAMPLE_COUNT callbacks, the first callback recorded nothing, and the
\* differential is printed only with both measurements resolved.
LatencyInvariant ==
    /\ \A m \in Measurements :
         /\ resolvedAvg[m] # <<>> <=> count[m] >= SAMPLE_COUNT
         /\ Len(slotTimes[m]) = (IF count[m] = 0 THEN 0 ELSE count[m] - 1)
         /\ removals[m] > 0 <=> count[m] >= SAMPLE_COUNT
    /\ differential # <<>> =>
         /\ \A m \in Measurements : resolvedAvg[m] # <<>>
         /\ Same(differential[1],
                 ToFixed(Sub(resolvedAvg["Localhost"][1],
                             resolvedAvg["Mainnet RPC"][1]), 2))

\* One callback: what it records is the time since the callback before it;
\* the one that resolves the promise is the SAMPLE_COUNT-th, which leaves
\* SAMPLE_COUNT - 1 intervals, their mean as the value and the listener's
\* removal asked for; a resolved value stays.
LatencyStep ==
    \A m \in Measurements :
        /\ (count[m] > 0 /\ count'[m] = count[m] + 1) =>
             slotTimes'[m] =
               Append(slotTimes[m], lastTimestamp'[m] - lastTimestamp[m])
        /\ (resolvedAvg[m] = <<>> /\ resolvedAvg'[m] # <<>>) =>
             /\ count'[m] = SAMPLE_COUNT
             /\ Len(slotTimes'[m]) = SAMPLE_COUNT - 1
             /\ removals[m] = 0
             /\ removals'[m] = 1
             /\ Same(Mul(resolvedAvg'[m][1], Number(SAMPLE_COUNT - 1)),
                     Number(SumOf(slotTimes'[m])))
        /\ resolvedAvg[m] # <<>> => resolvedAvg'[m] = resolvedAvg[m]

\* C30: a measurement resolves on its SAMPLE_COUNT-th slot change and not
\* before, with SAMPLE_COUNT - 1 intervals recorded (the first callback is
\* the baseline), the removal of its listener asked for and the mean of those
\* intervals as its value; the two measurements run side by side, and the
\* differential is printed after both have resolved, and only then.
C30_Resolution ==
    /\ []LatencyInvariant
    /\ [][LatencyStep]_vars

C30_Witness ==
    /\ differential # <<>>
    /\ Len(printed) > Cardinality(Measurements)
    /\ printed[1].label = "Mainnet RPC"
    /\ count["Localhost"] = SAMPLE_COUNT
    /\ SignOf(differential[1]) < 0

\* The two measurements under way at once, neither resolved.
SideBySide ==
    /\ \A m \in Measurements : count[m] > 0 /\ resolvedAvg[m] = <<>>
    /\ slotTimes["Localhost"] # slotTimes["Mainnet RPC"]

====
